---- MODULE Spec2Model ----
(***************************************************************************)
(* Model of the grid search code of ayoubachak/mazing:                     *)
(*   - the four search functions of src/algorithms/pathfinding.ts, which   *)
(*     work in place on the grid object the caller passes;                 *)
(*   - the AlgorithmEngine class of src/core/AlgorithmEngine.ts, which     *)
(*     makes a working copy with prepareGrid and then searches;            *)
(*   - the search functions that deep-clone the grid before they search;   *)
(*   - the GridModel class, which holds the grid the user edits.           *)
(* A grid cell is named by its row-major index 1..NumCells; a reference to *)
(* a cell object (previousNode) is that index, Null for null.              *)
(***************************************************************************)
EXTENDS Integers, Sequences, FiniteSets, TLC

\* ------------------------------------------------------------------ bounds
Rows == 2
Cols == 3
MaxWalls == 2
MaxWeights == 1
MaxFood == 1
\* largest number of rows and of columns of a GridModel
MaxGridRows == 2
MaxGridCols == 2

\* --------------------------------------------------------- program values
\* JavaScript's Infinity (createNode: distance: Infinity, fScore: Infinity)
Infinity == -1
\* previousNode: null
Null == 0
\* weightValue given to a weight cell by toggleWeight
WeightCost == 5
\* safetyLimit of getNodesInShortestPathOrder in the deep-cloning functions
safetyLimit == 1000

NumCells == Rows * Cols
Cells == 1..NumCells
RowOf(node) == (node - 1) \div Cols
ColOf(node) == (node - 1) % Cols
At(row, col) == row * Cols + col + 1

\* number arithmetic of the code on distance/fScore, with Infinity
Plus(a, b) == IF a = Infinity \/ b = Infinity THEN Infinity ELSE a + b
Less(a, b) == a # Infinity /\ (b = Infinity \/ a < b)
Abs(x) == IF x < 0 THEN -x ELSE x

VARIABLES
  grid,        \* the grid object the caller passes to pathfinding.ts
  startNode,   \* cell passed as startNode
  finishNode,  \* cell passed as finishNode
  foodNodes,   \* sequence of waypoint cells
  first,       \* result of the first call on this configuration, or NoCall
  second,      \* result of the second call, or NoCall
  model,       \* the fields of a GridModel object, or NoModel
  bus,         \* the fields of an EventBus and its running publish calls, or NoBus
  viz          \* the fields of a VisualizationEngine and its timers, or NoViz

vars == <<grid, startNode, finishNode, foodNodes, first, second, model, bus, viz>>

\* no GridModel object takes part in the calls of the search functions
NoModel == [rows |-> 0, cols |-> 0]
\* no EventBus is under test
NoBus == [kind |-> "none"]
\* no VisualizationEngine is under test
NoViz == [animationState |-> "none"]

NoCall == [alg |-> "none"]

\* A cell as createNode builds it, with the wall/weight flags the user drew
createNode(isWall, isWeight) ==
  [isWall |-> isWall, isWeight |-> isWeight,
   weightValue |-> IF isWeight THEN WeightCost ELSE 1,
   isVisited |-> FALSE, distance |-> Infinity, previousNode |-> Null,
   heuristic |-> 0, fScore |-> Infinity]

FreshGrid(walls, weights) ==
  [c \in Cells |-> createNode(c \in walls, c \in weights)]

\* ------------------------------------------------------ pathfinding.ts
getAllNodes == [i \in 1..NumCells |-> i]

\* comparator of sortNodesByDistance: negative result, a goes first.
\* Infinity - Infinity is NaN, which sort reads as 0 (equal)
DistanceBefore(a, b, g) == Less(g[a].distance, g[b].distance)

\* comparator of sortNodesByFScore
FScoreBefore(a, b, g) ==
  IF g[a].fScore = g[b].fScore
  THEN g[a].heuristic < g[b].heuristic
  ELSE Less(g[a].fScore, g[b].fScore)

\* Array.prototype.sort is stable: insertion of x, the last element of the
\* input, goes before the first element the comparator puts strictly after it
RECURSIVE InsertByDistance(_, _, _)
InsertByDistance(x, s, g) ==
  IF s = <<>> THEN <<x>>
  ELSE IF DistanceBefore(x, Head(s), g) THEN <<x>> \o s
  ELSE <<Head(s)>> \o InsertByDistance(x, Tail(s), g)

RECURSIVE sortNodesByDistance(_, _)
sortNodesByDistance(unvisitedNodes, g) ==
  IF unvisitedNodes = <<>> THEN <<>>
  ELSE InsertByDistance(unvisitedNodes[Len(unvisitedNodes)],
         sortNodesByDistance(SubSeq(unvisitedNodes, 1, Len(unvisitedNodes) - 1), g), g)

RECURSIVE InsertByFScore(_, _, _)
InsertByFScore(x, s, g) ==
  IF s = <<>> THEN <<x>>
  ELSE IF FScoreBefore(x, Head(s), g) THEN <<x>> \o s
  ELSE <<Head(s)>> \o InsertByFScore(x, Tail(s), g)

RECURSIVE sortNodesByFScore(_, _)
sortNodesByFScore(unvisitedNodes, g) ==
  IF unvisitedNodes = <<>> THEN <<>>
  ELSE InsertByFScore(unvisitedNodes[Len(unvisitedNodes)],
         sortNodesByFScore(SubSeq(unvisitedNodes, 1, Len(unvisitedNodes) - 1), g), g)

getNeighbors(node) ==
  LET row == RowOf(node)
      col == ColOf(node)
  IN (IF row > 0 THEN <<At(row - 1, col)>> ELSE <<>>) \o
     (IF row < Rows - 1 THEN <<At(row + 1, col)>> ELSE <<>>) \o
     (IF col > 0 THEN <<At(row, col - 1)>> ELSE <<>>) \o
     (IF col < Cols - 1 THEN <<At(row, col + 1)>> ELSE <<>>)

\* variant of RelaxNeighbors that counts every step as 1
RECURSIVE RelaxNeighbors_IgnoreWeight(_, _, _)
RelaxNeighbors_IgnoreWeight(neighbors, node, g) ==
  IF neighbors = <<>> THEN g
  ELSE LET neighbor == Head(neighbors)
           distanceToNeighbor == Plus(g[node].distance, 1)
           g1 == IF ~g[neighbor].isVisited /\ ~g[neighbor].isWall
                    /\ Less(distanceToNeighbor, g[neighbor].distance)
                 THEN [g EXCEPT ![neighbor].distance = distanceToNeighbor,
                                ![neighbor].previousNode = node]
                 ELSE g
       IN RelaxNeighbors_IgnoreWeight(Tail(neighbors), node, g1)

RECURSIVE RelaxNeighbors(_, _, _)
RelaxNeighbors(neighbors, node, g) ==
  IF neighbors = <<>> THEN g
  ELSE LET neighbor == Head(neighbors)
           weight == IF g[neighbor].isWeight THEN g[neighbor].weightValue ELSE 1
           distanceToNeighbor == Plus(g[node].distance, weight)
           g1 == IF ~g[neighbor].isVisited /\ ~g[neighbor].isWall
                    /\ Less(distanceToNeighbor, g[neighbor].distance)
                 THEN [g EXCEPT ![neighbor].distance = distanceToNeighbor,
                                ![neighbor].previousNode = node]
                 ELSE g
       IN RelaxNeighbors(Tail(neighbors), node, g1)

updateUnvisitedNeighbors(node, g) == RelaxNeighbors(getNeighbors(node), node, g)

\* the walk along previousNode; a walk of more than NumCells cells has
\* entered a cycle and the while loop never ends
RECURSIVE WalkBack(_, _, _)
WalkBack(currentNode, g, acc) ==
  IF currentNode = Null THEN [nodes |-> acc, ends |-> TRUE]
  ELSE IF Len(acc) > NumCells THEN [nodes |-> acc, ends |-> FALSE]
  ELSE WalkBack(g[currentNode].previousNode, g, <<currentNode>> \o acc)

getNodesInShortestPathOrder(finishNodeArg, g) == WalkBack(finishNodeArg, g, <<>>)

LegResult(g, nodesInOrder, walk) ==
  [grid |-> g, nodesInOrder |-> nodesInOrder,
   pathToTarget |-> walk.nodes, ends |-> walk.ends]

NoPath == [nodes |-> <<>>, ends |-> TRUE]

\* variant of dijkstraLoop without the test for a closest node at distance
\* Infinity
RECURSIVE dijkstraLoop_NoTrapTest(_, _, _, _)
dijkstraLoop_NoTrapTest(g, target, unvisitedNodes, visitedNodesInOrder) ==
  IF unvisitedNodes = <<>> THEN LegResult(g, visitedNodesInOrder, NoPath)
  ELSE
    LET sorted == sortNodesByDistance(unvisitedNodes, g)
        closestNode == Head(sorted)
        rest == Tail(sorted)
    IN IF g[closestNode].isWall
       THEN dijkstraLoop_NoTrapTest(g, target, rest, visitedNodesInOrder)
       ELSE
         LET g1 == [g EXCEPT ![closestNode].isVisited = TRUE]
             v1 == Append(visitedNodesInOrder, closestNode)
         IN IF closestNode = target
            THEN LegResult(g1, v1, getNodesInShortestPathOrder(target, g1))
            ELSE dijkstraLoop_NoTrapTest(updateUnvisitedNeighbors(closestNode, g1),
                                         target, rest, v1)

RECURSIVE dijkstraLoop(_, _, _, _)
dijkstraLoop(g, target, unvisitedNodes, visitedNodesInOrder) ==
  IF unvisitedNodes = <<>> THEN LegResult(g, visitedNodesInOrder, NoPath)
  ELSE
    LET sorted == sortNodesByDistance(unvisitedNodes, g)
        closestNode == Head(sorted)
        rest == Tail(sorted)
    IN IF g[closestNode].isWall
       THEN dijkstraLoop(g, target, rest, visitedNodesInOrder)
       ELSE IF g[closestNode].distance = Infinity
       THEN LegResult(g, visitedNodesInOrder, NoPath)
       ELSE
         LET g1 == [g EXCEPT ![closestNode].isVisited = TRUE]
             v1 == Append(visitedNodesInOrder, closestNode)
         IN IF closestNode = target
            THEN LegResult(g1, v1, getNodesInShortestPathOrder(target, g1))
            ELSE dijkstraLoop(updateUnvisitedNeighbors(closestNode, g1),
                              target, rest, v1)

dijkstraHelper(g, legStart, target, unvisitedNodes) ==
  dijkstraLoop(g, target, unvisitedNodes, <<>>)

\* targetNodes of the run functions
TargetNodes(finish, foods) == foods \o <<finish>>

\* the accumulated state of a run function's for loop
RunState(g, currentStartNode) ==
  [grid |-> g, currentStartNode |-> currentStartNode,
   allVisitedNodes |-> <<>>, allNodesInPath |-> <<>>,
   legs |-> <<>>, returned |-> TRUE]

\* one leg appended to the accumulated state (lines 121-123)
Accumulate(st, target, result) ==
  [grid |-> result.grid, currentStartNode |-> target,
   allVisitedNodes |-> st.allVisitedNodes \o result.nodesInOrder,
   allNodesInPath |-> st.allNodesInPath \o result.pathToTarget,
   legs |-> Append(st.legs, [start |-> st.currentStartNode, target |-> target,
                             nodesInOrder |-> result.nodesInOrder,
                             pathToTarget |-> result.pathToTarget]),
   returned |-> TRUE]

\* a leg whose path reconstruction never ends: the call does not return
Diverge(st, target, result) ==
  [st EXCEPT !.grid = result.grid,
             !.legs = Append(st.legs, [start |-> st.currentStartNode,
                                       target |-> target,
                                       nodesInOrder |-> result.nodesInOrder,
                                       pathToTarget |-> <<>>]),
             !.returned = FALSE]

ResetDijkstra(g, currentStartNode) ==
  [c \in Cells |->
     IF c # currentStartNode
     THEN [g[c] EXCEPT !.distance = Infinity, !.previousNode = Null]
     ELSE g[c]]

RECURSIVE dijkstraLegs(_, _)
dijkstraLegs(st, targets) ==
  IF targets = <<>> THEN st
  ELSE
    LET targetNode == Head(targets)
        g0 == ResetDijkstra(st.grid, st.currentStartNode)
        result == dijkstraHelper(g0, st.currentStartNode, targetNode, getAllNodes)
    IN IF ~result.ends THEN Diverge(st, targetNode, result)
       ELSE IF Len(result.nodesInOrder) = 0 THEN [st EXCEPT !.grid = result.grid]
       ELSE dijkstraLegs(Accumulate(st, targetNode, result), Tail(targets))

runDijkstra(g, start, finish, foods) ==
  LET g0 == [g EXCEPT ![start].distance = 0]
  IN dijkstraLegs(RunState(g0, start), TargetNodes(finish, foods))

\* ------------------------------------------------------------------- A*
calculateManhattanDistance(nodeA, nodeB) ==
  Abs(RowOf(nodeA) - RowOf(nodeB)) + Abs(ColOf(nodeA) - ColOf(nodeB))

\* variant of RelaxNeighborsAStar whose fScore leaves out the distance
RECURSIVE RelaxNeighborsAStar_HeuristicOnly(_, _, _)
RelaxNeighborsAStar_HeuristicOnly(neighbors, node, g) ==
  IF neighbors = <<>> THEN g
  ELSE LET neighbor == Head(neighbors)
           weight == IF g[neighbor].isWeight THEN g[neighbor].weightValue ELSE 1
           distanceToNeighbor == Plus(g[node].distance, weight)
           g1 == IF ~g[neighbor].isVisited /\ ~g[neighbor].isWall
                    /\ Less(distanceToNeighbor, g[neighbor].distance)
                 THEN [g EXCEPT ![neighbor].distance = distanceToNeighbor,
                                ![neighbor].fScore = g[neighbor].heuristic,
                                ![neighbor].previousNode = node]
                 ELSE g
       IN RelaxNeighborsAStar_HeuristicOnly(Tail(neighbors), node, g1)

RECURSIVE RelaxNeighborsAStar(_, _, _)
RelaxNeighborsAStar(neighbors, node, g) ==
  IF neighbors = <<>> THEN g
  ELSE LET neighbor == Head(neighbors)
           weight == IF g[neighbor].isWeight THEN g[neighbor].weightValue ELSE 1
           distanceToNeighbor == Plus(g[node].distance, weight)
           g1 == IF ~g[neighbor].isVisited /\ ~g[neighbor].isWall
                    /\ Less(distanceToNeighbor, g[neighbor].distance)
                 THEN [g EXCEPT ![neighbor].distance = distanceToNeighbor,
                                ![neighbor].fScore =
                                   Plus(distanceToNeighbor, g[neighbor].heuristic),
                                ![neighbor].previousNode = node]
                 ELSE g
       IN RelaxNeighborsAStar(Tail(neighbors), node, g1)

updateUnvisitedNeighborsAStar(node, g) ==
  RelaxNeighborsAStar(getNeighbors(node), node, g)

RECURSIVE aStarLoop(_, _, _, _)
aStarLoop(g, target, unvisitedNodes, visitedNodesInOrder) ==
  IF unvisitedNodes = <<>> THEN LegResult(g, visitedNodesInOrder, NoPath)
  ELSE
    LET sorted == sortNodesByFScore(unvisitedNodes, g)
        closestNode == Head(sorted)
        rest == Tail(sorted)
    IN IF g[closestNode].isWall
       THEN aStarLoop(g, target, rest, visitedNodesInOrder)
       ELSE IF g[closestNode].distance = Infinity
       THEN LegResult(g, visitedNodesInOrder, NoPath)
       ELSE
         LET g1 == [g EXCEPT ![closestNode].isVisited = TRUE]
             v1 == Append(visitedNodesInOrder, closestNode)
         IN IF closestNode = target
            THEN LegResult(g1, v1, getNodesInShortestPathOrder(target, g1))
            ELSE aStarLoop(updateUnvisitedNeighborsAStar(closestNode, g1),
                           target, rest, v1)

aStarHelper(g, legStart, target, unvisitedNodes) ==
  aStarLoop(g, target, unvisitedNodes, <<>>)

ResetAStar(g, currentStartNode, targetNode) ==
  [c \in Cells |->
     IF c # currentStartNode
     THEN [g[c] EXCEPT !.distance = Infinity,
                       !.heuristic = calculateManhattanDistance(c, targetNode),
                       !.fScore = Infinity,
                       !.previousNode = Null]
     ELSE g[c]]

RECURSIVE aStarLegs(_, _)
aStarLegs(st, targets) ==
  IF targets = <<>> THEN st
  ELSE
    LET targetNode == Head(targets)
        g0 == ResetAStar(st.grid, st.currentStartNode, targetNode)
        result == aStarHelper(g0, st.currentStartNode, targetNode, getAllNodes)
    IN IF ~result.ends THEN Diverge(st, targetNode, result)
       ELSE IF Len(result.nodesInOrder) = 0 THEN [st EXCEPT !.grid = result.grid]
       ELSE aStarLegs(Accumulate(st, targetNode, result), Tail(targets))

\* the three assignments to startNode that open runAStar
aStarStart(g, start, finish) ==
  LET h == calculateManhattanDistance(start, finish)
  IN [g EXCEPT ![start].distance = 0,
               ![start].heuristic = h,
               ![start].fScore = 0 + h]

runAStar(g, start, finish, foods) ==
  aStarLegs(RunState(aStarStart(g, start, finish), start),
            TargetNodes(finish, foods))

\* ------------------------------------------------------------ BFS and DFS
\* the for loop over the neighbours of bfsHelper and dfsHelper: marks and
\* links each unvisited non-wall neighbour and pushes it on the frontier
\* variant of PushNeighbors that does not test isWall
RECURSIVE PushNeighbors_NoWallTest(_, _, _, _)
PushNeighbors_NoWallTest(neighbors, currentNode, g, frontier) ==
  IF neighbors = <<>> THEN [grid |-> g, frontier |-> frontier]
  ELSE LET neighbor == Head(neighbors)
       IN IF ~g[neighbor].isVisited
          THEN PushNeighbors_NoWallTest(Tail(neighbors), currentNode,
                 [g EXCEPT ![neighbor].isVisited = TRUE,
                           ![neighbor].previousNode = currentNode],
                 Append(frontier, neighbor))
          ELSE PushNeighbors_NoWallTest(Tail(neighbors), currentNode, g, frontier)

\* variant of PushNeighbors that keeps off weight cells
RECURSIVE PushNeighbors_AvoidWeights(_, _, _, _)
PushNeighbors_AvoidWeights(neighbors, currentNode, g, frontier) ==
  IF neighbors = <<>> THEN [grid |-> g, frontier |-> frontier]
  ELSE LET neighbor == Head(neighbors)
       IN IF ~g[neighbor].isVisited /\ ~g[neighbor].isWall /\ ~g[neighbor].isWeight
          THEN PushNeighbors_AvoidWeights(Tail(neighbors), currentNode,
                 [g EXCEPT ![neighbor].isVisited = TRUE,
                           ![neighbor].previousNode = currentNode],
                 Append(frontier, neighbor))
          ELSE PushNeighbors_AvoidWeights(Tail(neighbors), currentNode, g, frontier)

\* variant of PushNeighbors that links every non-wall neighbour it sees to
\* the current node, visited or not
RECURSIVE PushNeighbors_LinkOnSight(_, _, _, _)
PushNeighbors_LinkOnSight(neighbors, currentNode, g, frontier) ==
  IF neighbors = <<>> THEN [grid |-> g, frontier |-> frontier]
  ELSE LET neighbor == Head(neighbors)
       IN IF ~g[neighbor].isWall
          THEN PushNeighbors_LinkOnSight(Tail(neighbors), currentNode,
                 [g EXCEPT ![neighbor].isVisited = TRUE,
                           ![neighbor].previousNode = currentNode],
                 IF g[neighbor].isVisited THEN frontier
                 ELSE Append(frontier, neighbor))
          ELSE PushNeighbors_LinkOnSight(Tail(neighbors), currentNode, g, frontier)

RECURSIVE PushNeighbors(_, _, _, _)
PushNeighbors(neighbors, currentNode, g, frontier) ==
  IF neighbors = <<>> THEN [grid |-> g, frontier |-> frontier]
  ELSE LET neighbor == Head(neighbors)
       IN IF ~g[neighbor].isVisited /\ ~g[neighbor].isWall
          THEN PushNeighbors(Tail(neighbors), currentNode,
                 [g EXCEPT ![neighbor].isVisited = TRUE,
                           ![neighbor].previousNode = currentNode],
                 Append(frontier, neighbor))
          ELSE PushNeighbors(Tail(neighbors), currentNode, g, frontier)

RECURSIVE bfsLoop(_, _, _, _)
bfsLoop(g, target, queue, visitedNodesInOrder) ==
  IF queue = <<>> THEN LegResult(g, visitedNodesInOrder, NoPath)
  ELSE
    LET currentNode == Head(queue)
        v1 == Append(visitedNodesInOrder, currentNode)
    IN IF currentNode = target
       THEN LegResult(g, v1, getNodesInShortestPathOrder(target, g))
       ELSE LET pushed == PushNeighbors(getNeighbors(currentNode), currentNode,
                                        g, Tail(queue))
            IN bfsLoop(pushed.grid, target, pushed.frontier, v1)

\* variant of bfsHelper that does not mark the leg's start visited
bfsHelper_NoStartMark(g, legStart, target) ==
  bfsLoop(g, target, <<legStart>>, <<>>)

bfsHelper(g, legStart, target) ==
  bfsLoop([g EXCEPT ![legStart].isVisited = TRUE], target, <<legStart>>, <<>>)

\* variant of Reverse that keeps the order
Reverse_KeepOrder(s) == s

Reverse(s) == [i \in 1..Len(s) |-> s[Len(s) + 1 - i]]

RECURSIVE dfsLoop(_, _, _, _)
dfsLoop(g, target, stack, visitedNodesInOrder) ==
  IF stack = <<>> THEN LegResult(g, visitedNodesInOrder, NoPath)
  ELSE
    LET currentNode == stack[Len(stack)]
        v1 == Append(visitedNodesInOrder, currentNode)
    IN IF currentNode = target
       THEN LegResult(g, v1, getNodesInShortestPathOrder(target, g))
       ELSE LET pushed == PushNeighbors(Reverse(getNeighbors(currentNode)),
                                        currentNode, g,
                                        SubSeq(stack, 1, Len(stack) - 1))
            IN dfsLoop(pushed.grid, target, pushed.frontier, v1)

dfsHelper(g, legStart, target) ==
  dfsLoop([g EXCEPT ![legStart].isVisited = TRUE], target, <<legStart>>, <<>>)

\* the reset loop of runBFS and of runDFS
ResetBFS(g, currentStartNode) ==
  [c \in Cells |->
     IF c # currentStartNode
     THEN [g[c] EXCEPT !.distance = Infinity, !.isVisited = FALSE,
                       !.previousNode = Null]
     ELSE g[c]]

RECURSIVE bfsLegs(_, _)
bfsLegs(st, targets) ==
  IF targets = <<>> THEN st
  ELSE
    LET targetNode == Head(targets)
        g0 == ResetBFS(st.grid, st.currentStartNode)
        result == bfsHelper(g0, st.currentStartNode, targetNode)
    IN IF ~result.ends THEN Diverge(st, targetNode, result)
       ELSE IF Len(result.nodesInOrder) = 0 THEN [st EXCEPT !.grid = result.grid]
       ELSE bfsLegs(Accumulate(st, targetNode, result), Tail(targets))

\* variant of runBFS that searches by weighted distance
runBFS_ByWeightedDistance(g, start, finish, foods) ==
  runDijkstra(g, start, finish, foods)

runBFS(g, start, finish, foods) ==
  LET g0 == [g EXCEPT ![start].distance = 0, ![start].isVisited = TRUE]
  IN bfsLegs(RunState(g0, start), TargetNodes(finish, foods))

RECURSIVE dfsLegs(_, _)
dfsLegs(st, targets) ==
  IF targets = <<>> THEN st
  ELSE
    LET targetNode == Head(targets)
        g0 == ResetBFS(st.grid, st.currentStartNode)
        result == dfsHelper(g0, st.currentStartNode, targetNode)
    IN IF ~result.ends THEN Diverge(st, targetNode, result)
       ELSE IF Len(result.nodesInOrder) = 0 THEN [st EXCEPT !.grid = result.grid]
       ELSE dfsLegs(Accumulate(st, targetNode, result), Tail(targets))

runDFS(g, start, finish, foods) ==
  LET g0 == [g EXCEPT ![start].distance = 0, ![start].isVisited = TRUE]
  IN dfsLegs(RunState(g0, start), TargetNodes(finish, foods))

\* ------------------------------------------- AlgorithmEngine (core)
\* The engine holds this.grid and searches a working copy.  Node objects of
\* both grids live in one heap: reference c in 1..NumCells is the cell of
\* this.grid at position c, NumCells + c is the cell of the working copy at
\* position c, and 2 * NumCells + c is a cell of a working copy of an
\* earlier run (no longer part of any grid, previousNode null).
WorkRef(c) == NumCells + c
PositionOf(ref) == ((ref - 1) % NumCells) + 1
IsWorkRef(ref) == ref > NumCells /\ ref <= 2 * NumCells
StaleRef(ref) == 2 * NumCells + PositionOf(ref)

\* prepareGrid: the heap made of this.grid followed by the working copy
Engine_prepareGrid(thisGrid) ==
  thisGrid \o
  [c \in 1..NumCells |->
     [thisGrid[c] EXCEPT !.isVisited = FALSE, !.distance = Infinity,
                         !.previousNode = Null, !.heuristic = 0,
                         !.fScore = Infinity]]

\* getAllNodes walks this.grid
Engine_getAllNodes == [i \in 1..NumCells |-> i]

\* getNeighbors indexes this.grid with the node's row and col
Engine_getNeighbors(node) == getNeighbors(PositionOf(node))

Engine_updateUnvisitedNeighbors(node, h) ==
  RelaxNeighbors(Engine_getNeighbors(node), node, h)

Engine_updateUnvisitedNeighborsAStar(node, h) ==
  RelaxNeighborsAStar(Engine_getNeighbors(node), node, h)

RECURSIVE Engine_WalkBack(_, _, _)
Engine_WalkBack(currentNode, h, acc) ==
  IF currentNode = Null THEN [nodes |-> acc, ends |-> TRUE]
  ELSE IF Len(acc) > 2 * NumCells THEN [nodes |-> acc, ends |-> FALSE]
  ELSE Engine_WalkBack(IF currentNode > 2 * NumCells THEN Null
                       ELSE h[currentNode].previousNode,
                       h, <<currentNode>> \o acc)

Engine_getNodesInShortestPathOrder(finishNodeArg, h) ==
  Engine_WalkBack(finishNodeArg, h, <<>>)

RECURSIVE Engine_dijkstraLoop(_, _, _, _)
Engine_dijkstraLoop(h, target, unvisitedNodes, visitedNodesInOrder) ==
  IF unvisitedNodes = <<>> THEN LegResult(h, visitedNodesInOrder, NoPath)
  ELSE
    LET sorted == sortNodesByDistance(unvisitedNodes, h)
        closestNode == Head(sorted)
        rest == Tail(sorted)
    IN IF h[closestNode].isWall
       THEN Engine_dijkstraLoop(h, target, rest, visitedNodesInOrder)
       ELSE IF h[closestNode].distance = Infinity
       THEN LegResult(h, visitedNodesInOrder, NoPath)
       ELSE
         LET h1 == [h EXCEPT ![closestNode].isVisited = TRUE]
             v1 == Append(visitedNodesInOrder, closestNode)
         IN IF closestNode = target
            THEN LegResult(h1, v1, Engine_getNodesInShortestPathOrder(target, h1))
            ELSE Engine_dijkstraLoop(Engine_updateUnvisitedNeighbors(closestNode, h1),
                                     target, rest, v1)

Engine_dijkstraHelper(h, legStart, target) ==
  Engine_dijkstraLoop(h, target, Engine_getAllNodes, <<>>)

RECURSIVE Engine_aStarLoop(_, _, _, _)
Engine_aStarLoop(h, target, unvisitedNodes, visitedNodesInOrder) ==
  IF unvisitedNodes = <<>> THEN LegResult(h, visitedNodesInOrder, NoPath)
  ELSE
    LET sorted == sortNodesByFScore(unvisitedNodes, h)
        closestNode == Head(sorted)
        rest == Tail(sorted)
    IN IF h[closestNode].isWall
       THEN Engine_aStarLoop(h, target, rest, visitedNodesInOrder)
       ELSE IF h[closestNode].distance = Infinity
       THEN LegResult(h, visitedNodesInOrder, NoPath)
       ELSE
         LET h1 == [h EXCEPT ![closestNode].isVisited = TRUE]
             v1 == Append(visitedNodesInOrder, closestNode)
         IN IF closestNode = target
            THEN LegResult(h1, v1, Engine_getNodesInShortestPathOrder(target, h1))
            ELSE Engine_aStarLoop(Engine_updateUnvisitedNeighborsAStar(closestNode, h1),
                                  target, rest, v1)

Engine_aStarHelper(h, legStart, target) ==
  Engine_aStarLoop(h, target, Engine_getAllNodes, <<>>)

RECURSIVE Engine_bfsLoop(_, _, _, _)
Engine_bfsLoop(h, target, queue, visitedNodesInOrder) ==
  IF queue = <<>> THEN LegResult(h, visitedNodesInOrder, NoPath)
  ELSE
    LET currentNode == Head(queue)
        v1 == Append(visitedNodesInOrder, currentNode)
    IN IF currentNode = target
       THEN LegResult(h, v1, Engine_getNodesInShortestPathOrder(target, h))
       ELSE LET pushed == PushNeighbors(Engine_getNeighbors(currentNode),
                                        currentNode, h, Tail(queue))
            IN Engine_bfsLoop(pushed.grid, target, pushed.frontier, v1)

Engine_bfsHelper(h, legStart, target) ==
  Engine_bfsLoop([h EXCEPT ![legStart].isVisited = TRUE], target, <<legStart>>, <<>>)

RECURSIVE Engine_dfsLoop(_, _, _, _)
Engine_dfsLoop(h, target, stack, visitedNodesInOrder) ==
  IF stack = <<>> THEN LegResult(h, visitedNodesInOrder, NoPath)
  ELSE
    LET currentNode == stack[Len(stack)]
        v1 == Append(visitedNodesInOrder, currentNode)
    IN IF currentNode = target
       THEN LegResult(h, v1, Engine_getNodesInShortestPathOrder(target, h))
       ELSE LET pushed == PushNeighbors(Reverse(Engine_getNeighbors(currentNode)),
                                        currentNode, h,
                                        SubSeq(stack, 1, Len(stack) - 1))
            IN Engine_dfsLoop(pushed.grid, target, pushed.frontier, v1)

Engine_dfsHelper(h, legStart, target) ==
  Engine_dfsLoop([h EXCEPT ![legStart].isVisited = TRUE], target, <<legStart>>, <<>>)

\* the reset loops run over workingGrid only
Engine_ResetDijkstra(h, currentStartNode) ==
  [r \in 1..(2 * NumCells) |->
     IF IsWorkRef(r) /\ r # currentStartNode
     THEN [h[r] EXCEPT !.distance = Infinity, !.previousNode = Null]
     ELSE h[r]]

Engine_ResetAStar(h, currentStartNode, targetNode) ==
  [r \in 1..(2 * NumCells) |->
     IF IsWorkRef(r) /\ r # currentStartNode
     THEN [h[r] EXCEPT !.distance = Infinity,
                       !.heuristic = calculateManhattanDistance(PositionOf(r),
                                                                PositionOf(targetNode)),
                       !.fScore = Infinity,
                       !.previousNode = Null]
     ELSE h[r]]

Engine_ResetBFS(h, currentStartNode) ==
  [r \in 1..(2 * NumCells) |->
     IF IsWorkRef(r) /\ r # currentStartNode
     THEN [h[r] EXCEPT !.isVisited = FALSE, !.previousNode = Null]
     ELSE h[r]]

RECURSIVE Engine_dijkstraLegs(_, _)
Engine_dijkstraLegs(st, targets) ==
  IF targets = <<>> THEN st
  ELSE
    LET targetNode == Head(targets)
        h0 == Engine_ResetDijkstra(st.grid, st.currentStartNode)
        result == Engine_dijkstraHelper(h0, st.currentStartNode, targetNode)
    IN IF ~result.ends THEN Diverge(st, targetNode, result)
       ELSE IF Len(result.nodesInOrder) = 0 THEN [st EXCEPT !.grid = result.grid]
       ELSE Engine_dijkstraLegs(Accumulate(st, targetNode, result), Tail(targets))

RECURSIVE Engine_aStarLegs(_, _)
Engine_aStarLegs(st, targets) ==
  IF targets = <<>> THEN st
  ELSE
    LET targetNode == Head(targets)
        h0 == Engine_ResetAStar(st.grid, st.currentStartNode, targetNode)
        result == Engine_aStarHelper(h0, st.currentStartNode, targetNode)
    IN IF ~result.ends THEN Diverge(st, targetNode, result)
       ELSE IF Len(result.nodesInOrder) = 0 THEN [st EXCEPT !.grid = result.grid]
       ELSE Engine_aStarLegs(Accumulate(st, targetNode, result), Tail(targets))

RECURSIVE Engine_bfsLegs(_, _)
Engine_bfsLegs(st, targets) ==
  IF targets = <<>> THEN st
  ELSE
    LET targetNode == Head(targets)
        h0 == Engine_ResetBFS(st.grid, st.currentStartNode)
        result == Engine_bfsHelper(h0, st.currentStartNode, targetNode)
    IN IF ~result.ends THEN Diverge(st, targetNode, result)
       ELSE IF Len(result.nodesInOrder) = 0 THEN [st EXCEPT !.grid = result.grid]
       ELSE Engine_bfsLegs(Accumulate(st, targetNode, result), Tail(targets))

RECURSIVE Engine_dfsLegs(_, _)
Engine_dfsLegs(st, targets) ==
  IF targets = <<>> THEN st
  ELSE
    LET targetNode == Head(targets)
        h0 == Engine_ResetBFS(st.grid, st.currentStartNode)
        result == Engine_dfsHelper(h0, st.currentStartNode, targetNode)
    IN IF ~result.ends THEN Diverge(st, targetNode, result)
       ELSE IF Len(result.nodesInOrder) = 0 THEN [st EXCEPT !.grid = result.grid]
       ELSE Engine_dfsLegs(Accumulate(st, targetNode, result), Tail(targets))

\* targetNodes of the engine: cells of workingGrid
Engine_TargetNodes(finish, foods) ==
  [i \in 1..Len(foods) |-> WorkRef(foods[i])] \o <<WorkRef(finish)>>

Engine_runDijkstra(thisGrid, start, finish, foods) ==
  LET h == Engine_prepareGrid(thisGrid)
      h0 == [h EXCEPT ![WorkRef(start)].distance = 0]
  IN Engine_dijkstraLegs(RunState(h0, WorkRef(start)), Engine_TargetNodes(finish, foods))

Engine_runAStar(thisGrid, start, finish, foods) ==
  LET h == Engine_prepareGrid(thisGrid)
      hs == calculateManhattanDistance(start, finish)
      h0 == [h EXCEPT ![WorkRef(start)].distance = 0,
                      ![WorkRef(start)].heuristic = hs,
                      ![WorkRef(start)].fScore = 0 + hs]
  IN Engine_aStarLegs(RunState(h0, WorkRef(start)), Engine_TargetNodes(finish, foods))

Engine_runBFS(thisGrid, start, finish, foods) ==
  Engine_bfsLegs(RunState(Engine_prepareGrid(thisGrid), WorkRef(start)),
                 Engine_TargetNodes(finish, foods))

Engine_runDFS(thisGrid, start, finish, foods) ==
  Engine_dfsLegs(RunState(Engine_prepareGrid(thisGrid), WorkRef(start)),
                 Engine_TargetNodes(finish, foods))

\* this.grid after a run: the working copy is dropped; a reference that a
\* cell of this.grid holds to a cell of that copy now names a stale cell
Engine_thisGridAfter(h) ==
  [c \in Cells |->
     [h[c] EXCEPT !.previousNode = IF IsWorkRef(@) THEN StaleRef(@) ELSE @]]

\* ------------------------------- the deep-cloning search functions
\* These run functions copy the caller's grid, search the copy, and map the
\* cells of the result back to the caller's grid by position.
isSamePosition(nodeA, nodeB) ==
  RowOf(nodeA) = RowOf(nodeB) /\ ColOf(nodeA) = ColOf(nodeB)

\* the cells the walk along previousNode meets before it meets null (next =
\* Null) or a cell for the second time (next = that cell)
RECURSIVE ChainPrefix(_, _, _)
ChainPrefix(currentNode, g, acc) ==
  IF currentNode = Null \/ \E i \in 1..Len(acc) : acc[i] = currentNode
  THEN [nodes |-> acc, next |-> currentNode]
  ELSE ChainPrefix(g[currentNode].previousNode, g, Append(acc, currentNode))

\* the while loop of getNodesInShortestPathOrder: it runs while currentNode
\* is not null and safetyLimit > 0.  The cell of its iteration k (from 0) is
\* read off the chain prefix and, past the prefix, off the cycle it entered;
\* unshift puts the cell of the last iteration first.  ends tells that the
\* loop stopped with safetyLimit still above 0.
Clone_getNodesInShortestPathOrder(finishNodeArg, g) ==
  LET chain == ChainPrefix(finishNodeArg, g, <<>>)
      prefix == chain.nodes
      loopsAt == CHOOSE j \in 1..Len(prefix) : prefix[j] = chain.next
      period == Len(prefix) - loopsAt + 1
      iterations == IF chain.next = Null /\ Len(prefix) < safetyLimit
                    THEN Len(prefix) ELSE safetyLimit
      cellOf(k) == IF k < Len(prefix) THEN prefix[k + 1]
                   ELSE prefix[loopsAt + ((k - (loopsAt - 1)) % period)]
  IN [nodes |-> [i \in 1..iterations |-> cellOf(iterations - i)],
      ends |-> iterations < safetyLimit]

RECURSIVE Clone_dijkstraLoop(_, _, _, _)
Clone_dijkstraLoop(g, target, unvisitedNodes, visitedNodesInOrder) ==
  IF unvisitedNodes = <<>> THEN LegResult(g, visitedNodesInOrder, NoPath)
  ELSE
    LET sorted == sortNodesByDistance(unvisitedNodes, g)
        closestNode == Head(sorted)
        rest == Tail(sorted)
    IN IF g[closestNode].isWall
       THEN Clone_dijkstraLoop(g, target, rest, visitedNodesInOrder)
       ELSE IF g[closestNode].distance = Infinity
       THEN LegResult(g, visitedNodesInOrder, NoPath)
       ELSE
         LET g1 == [g EXCEPT ![closestNode].isVisited = TRUE]
             v1 == Append(visitedNodesInOrder, closestNode)
         IN IF isSamePosition(closestNode, target)
            THEN LegResult(g1, v1, Clone_getNodesInShortestPathOrder(target, g1))
            ELSE Clone_dijkstraLoop(updateUnvisitedNeighbors(closestNode, g1),
                                    target, rest, v1)

Clone_dijkstraHelper(g, legStart, target) ==
  Clone_dijkstraLoop([g EXCEPT ![legStart].distance = 0], target, getAllNodes, <<>>)

RECURSIVE Clone_aStarLoop(_, _, _, _)
Clone_aStarLoop(g, target, unvisitedNodes, visitedNodesInOrder) ==
  IF unvisitedNodes = <<>> THEN LegResult(g, visitedNodesInOrder, NoPath)
  ELSE
    LET sorted == sortNodesByFScore(unvisitedNodes, g)
        closestNode == Head(sorted)
        rest == Tail(sorted)
    IN IF g[closestNode].isWall
       THEN Clone_aStarLoop(g, target, rest, visitedNodesInOrder)
       ELSE IF g[closestNode].distance = Infinity
       THEN LegResult(g, visitedNodesInOrder, NoPath)
       ELSE
         LET g1 == [g EXCEPT ![closestNode].isVisited = TRUE]
             v1 == Append(visitedNodesInOrder, closestNode)
         IN IF isSamePosition(closestNode, target)
            THEN LegResult(g1, v1, Clone_getNodesInShortestPathOrder(target, g1))
            ELSE Clone_aStarLoop(updateUnvisitedNeighborsAStar(closestNode, g1),
                                 target, rest, v1)

Clone_aStarHelper(g, legStart, target) ==
  Clone_aStarLoop([g EXCEPT ![legStart].distance = 0,
                            ![legStart].fScore = g[legStart].heuristic],
                  target, getAllNodes, <<>>)

RECURSIVE Clone_bfsLoop(_, _, _, _)
Clone_bfsLoop(g, target, queue, visitedNodesInOrder) ==
  IF queue = <<>> THEN LegResult(g, visitedNodesInOrder, NoPath)
  ELSE
    LET currentNode == Head(queue)
        v1 == Append(visitedNodesInOrder, currentNode)
    IN IF isSamePosition(currentNode, target)
       THEN LegResult(g, v1, Clone_getNodesInShortestPathOrder(target, g))
       ELSE LET pushed == PushNeighbors(getNeighbors(currentNode), currentNode,
                                        g, Tail(queue))
            IN Clone_bfsLoop(pushed.grid, target, pushed.frontier, v1)

Clone_bfsHelper(g, legStart, target) ==
  Clone_bfsLoop([g EXCEPT ![legStart].isVisited = TRUE], target, <<legStart>>, <<>>)

RECURSIVE Clone_dfsLoop(_, _, _, _)
Clone_dfsLoop(g, target, stack, visitedNodesInOrder) ==
  IF stack = <<>> THEN LegResult(g, visitedNodesInOrder, NoPath)
  ELSE
    LET currentNode == stack[Len(stack)]
        v1 == Append(visitedNodesInOrder, currentNode)
    IN IF isSamePosition(currentNode, target)
       THEN LegResult(g, v1, Clone_getNodesInShortestPathOrder(target, g))
       ELSE LET pushed == PushNeighbors(Reverse(getNeighbors(currentNode)),
                                        currentNode, g,
                                        SubSeq(stack, 1, Len(stack) - 1))
            IN Clone_dfsLoop(pushed.grid, target, pushed.frontier, v1)

Clone_dfsHelper(g, legStart, target) ==
  Clone_dfsLoop([g EXCEPT ![legStart].isVisited = TRUE], target, <<legStart>>, <<>>)

\* grid.map(row => row.map(node => ({...node}))) and the loop that
\* initializes every cell of the copy
Clone_workingGrid(g) ==
  [c \in Cells |-> [g[c] EXCEPT !.distance = Infinity, !.isVisited = FALSE,
                                !.previousNode = Null]]

Clone_workingGridAStar(g, finish) ==
  [c \in Cells |-> [g[c] EXCEPT !.distance = Infinity, !.isVisited = FALSE,
                                !.previousNode = Null,
                                !.heuristic = calculateManhattanDistance(c, finish),
                                !.fScore = Infinity]]

\* the reset loop at the head of each leg: every cell but the leg's start
Clone_Reset(g, currentStartNode) ==
  [c \in Cells |->
     IF ~isSamePosition(c, currentStartNode)
     THEN [g[c] EXCEPT !.distance = Infinity, !.isVisited = FALSE,
                       !.previousNode = Null]
     ELSE g[c]]

Clone_ResetAStar(g, currentStartNode, targetNode) ==
  [c \in Cells |->
     IF ~isSamePosition(c, currentStartNode)
     THEN [g[c] EXCEPT !.distance = Infinity, !.isVisited = FALSE,
                       !.previousNode = Null,
                       !.heuristic = calculateManhattanDistance(c, targetNode),
                       !.fScore = Infinity]
     ELSE g[c]]

\* one leg appended to the accumulated state; the cells of the result are
\* those of the caller's grid at the same positions
Clone_Accumulate(st, target, result) ==
  [grid |-> result.grid, currentStartNode |-> target,
   allVisitedNodes |-> st.allVisitedNodes \o result.nodesInOrder,
   allNodesInPath |-> st.allNodesInPath \o result.pathToTarget,
   legs |-> Append(st.legs, [start |-> st.currentStartNode, target |-> target,
                             nodesInOrder |-> result.nodesInOrder,
                             pathToTarget |-> result.pathToTarget,
                             ends |-> result.ends]),
   returned |-> TRUE]

RECURSIVE Clone_dijkstraLegs(_, _)
Clone_dijkstraLegs(st, targets) ==
  IF targets = <<>> THEN st
  ELSE
    LET targetNode == Head(targets)
        g0 == Clone_Reset(st.grid, st.currentStartNode)
        g1 == [g0 EXCEPT ![st.currentStartNode].distance = 0,
                         ![st.currentStartNode].isVisited = FALSE]
        result == Clone_dijkstraHelper(g1, st.currentStartNode, targetNode)
    IN IF Len(result.nodesInOrder) = 0
       THEN Clone_dijkstraLegs([st EXCEPT !.grid = result.grid], Tail(targets))
       ELSE Clone_dijkstraLegs(Clone_Accumulate(st, targetNode, result), Tail(targets))

Clone_runDijkstra(g, start, finish, foods) ==
  LET w == Clone_workingGrid(g)
      w0 == [w EXCEPT ![start].distance = 0]
  IN Clone_dijkstraLegs(RunState(w0, start), TargetNodes(finish, foods))

RECURSIVE Clone_aStarLegs(_, _)
Clone_aStarLegs(st, targets) ==
  IF targets = <<>> THEN st
  ELSE
    LET targetNode == Head(targets)
        g0 == Clone_ResetAStar(st.grid, st.currentStartNode, targetNode)
        g1 == [g0 EXCEPT ![st.currentStartNode].distance = 0,
                         ![st.currentStartNode].fScore =
                            g0[st.currentStartNode].heuristic,
                         ![st.currentStartNode].isVisited = FALSE]
        result == Clone_aStarHelper(g1, st.currentStartNode, targetNode)
    IN IF Len(result.nodesInOrder) = 0
       THEN Clone_aStarLegs([st EXCEPT !.grid = result.grid], Tail(targets))
       ELSE Clone_aStarLegs(Clone_Accumulate(st, targetNode, result), Tail(targets))

Clone_runAStar(g, start, finish, foods) ==
  LET w == Clone_workingGridAStar(g, finish)
      w0 == [w EXCEPT ![start].distance = 0, ![start].fScore = w[start].heuristic]
  IN Clone_aStarLegs(RunState(w0, start), TargetNodes(finish, foods))

RECURSIVE Clone_bfsLegs(_, _)
Clone_bfsLegs(st, targets) ==
  IF targets = <<>> THEN st
  ELSE
    LET targetNode == Head(targets)
        g0 == Clone_Reset(st.grid, st.currentStartNode)
        g1 == [g0 EXCEPT ![st.currentStartNode].distance = 0,
                         ![st.currentStartNode].isVisited = TRUE]
        result == Clone_bfsHelper(g1, st.currentStartNode, targetNode)
    IN IF Len(result.nodesInOrder) = 0
       THEN Clone_bfsLegs([st EXCEPT !.grid = result.grid], Tail(targets))
       ELSE Clone_bfsLegs(Clone_Accumulate(st, targetNode, result), Tail(targets))

Clone_runBFS(g, start, finish, foods) ==
  LET w == Clone_workingGrid(g)
      w0 == [w EXCEPT ![start].distance = 0, ![start].isVisited = TRUE]
  IN Clone_bfsLegs(RunState(w0, start), TargetNodes(finish, foods))

RECURSIVE Clone_dfsLegs(_, _)
Clone_dfsLegs(st, targets) ==
  IF targets = <<>> THEN st
  ELSE
    LET targetNode == Head(targets)
        g0 == Clone_Reset(st.grid, st.currentStartNode)
        g1 == [g0 EXCEPT ![st.currentStartNode].distance = 0,
                         ![st.currentStartNode].isVisited = TRUE]
        result == Clone_dfsHelper(g1, st.currentStartNode, targetNode)
    IN IF Len(result.nodesInOrder) = 0
       THEN Clone_dfsLegs([st EXCEPT !.grid = result.grid], Tail(targets))
       ELSE Clone_dfsLegs(Clone_Accumulate(st, targetNode, result), Tail(targets))

Clone_runDFS(g, start, finish, foods) ==
  LET w == Clone_workingGrid(g)
      w0 == [w EXCEPT ![start].distance = 0, ![start].isVisited = TRUE]
  IN Clone_dfsLegs(RunState(w0, start), TargetNodes(finish, foods))

\* ------------------------------------------------------------ the caller
CallRecord(alg, onFresh, st) ==
  [alg |-> alg, onFresh |-> onFresh,
   visitedNodesInOrder |-> st.allVisitedNodes,
   nodesInShortestPathOrder |-> st.allNodesInPath,
   legs |-> st.legs, returned |-> st.returned]

Walls == {c \in Cells : grid[c].isWall}
Weights == {c \in Cells : grid[c].isWeight}
IsFresh(g) == g = FreshGrid({c \in Cells : g[c].isWall}, {c \in Cells : g[c].isWeight})

BoundedSubsets(S, k) == {T \in SUBSET S : Cardinality(T) <= k}

RECURSIVE SeqsUpTo(_, _)
SeqsUpTo(S, k) ==
  IF k = 0 THEN {<<>>}
  ELSE SeqsUpTo(S, k - 1) \cup
       {Append(s, x) : s \in {t \in SeqsUpTo(S, k - 1) : Len(t) = k - 1}, x \in S}

\* the inputs of a call: a fresh grid with the walls and weights drawn on
\* it, distinct non-wall start and finish, non-wall waypoints
Inputs(maxWalls, maxWeights, maxFood) ==
  /\ \E walls \in BoundedSubsets(Cells, maxWalls) :
       \E weights \in BoundedSubsets(Cells \ walls, maxWeights) :
         grid = FreshGrid(walls, weights)
  /\ startNode \in {c \in Cells : ~grid[c].isWall}
  /\ finishNode \in {c \in Cells : ~grid[c].isWall /\ c # startNode}
  /\ foodNodes \in SeqsUpTo({c \in Cells : ~grid[c].isWall}, maxFood)
  /\ first = NoCall
  /\ second = NoCall
  /\ model = NoModel
  /\ bus = NoBus
  /\ viz = NoViz

\* calls without waypoints, on grids with walls and weights
Init == Inputs(MaxWalls, MaxWeights, 0)

\* calls with waypoints, on grids with walls
InitFood == Inputs(MaxWalls, 0, MaxFood)

\* a call of one of the run functions on the caller's grid object; the caller
\* calls a function once, and may then call the same function again with the
\* same grid object and arguments
CanCall(alg) ==
  /\ second = NoCall
  /\ first = NoCall \/ first.alg = alg

Return(alg, st) ==
  /\ IF first = NoCall
     THEN /\ first' = CallRecord(alg, IsFresh(grid), st)
          /\ UNCHANGED second
     ELSE /\ second' = CallRecord(alg, IsFresh(grid), st)
          /\ UNCHANGED first
  /\ UNCHANGED <<startNode, finishNode, foodNodes, model, bus, viz>>

RunDijkstra ==
  /\ CanCall("dijkstra")
  /\ LET st == runDijkstra(grid, startNode, finishNode, foodNodes)
     IN grid' = st.grid /\ Return("dijkstra", st)

RunAStar ==
  /\ CanCall("astar")
  /\ LET st == runAStar(grid, startNode, finishNode, foodNodes)
     IN grid' = st.grid /\ Return("astar", st)

RunBFS ==
  /\ CanCall("bfs")
  /\ LET st == runBFS(grid, startNode, finishNode, foodNodes)
     IN grid' = st.grid /\ Return("bfs", st)

RunDFS ==
  /\ CanCall("dfs")
  /\ LET st == runDFS(grid, startNode, finishNode, foodNodes)
     IN grid' = st.grid /\ Return("dfs", st)

Next ==
  \/ RunDijkstra
  \/ RunAStar
  \/ RunBFS
  \/ RunDFS

Spec == Init /\ [][Next]_vars

SpecFood == InitFood /\ [][Next]_vars

\* calls with waypoints, on grids with walls and weights
InitWeightsFood == Inputs(MaxWalls, MaxWeights, MaxFood)

SpecWeightsFood == InitWeightsFood /\ [][Next]_vars

\* calls with endpoints a well-formed call never has: start equal to finish,
\* or start or finish on a wall cell.  The run functions take any cell
\* objects and test nothing before they search.
InitInvalid ==
  /\ \E walls \in BoundedSubsets(Cells, MaxWalls) : grid = FreshGrid(walls, {})
  /\ startNode \in Cells
  /\ finishNode \in Cells
  /\ \/ startNode = finishNode
     \/ grid[startNode].isWall
     \/ grid[finishNode].isWall
  /\ foodNodes = <<>>
  /\ first = NoCall
  /\ second = NoCall
  /\ model = NoModel
  /\ bus = NoBus
  /\ viz = NoViz

SpecInvalid == InitInvalid /\ [][Next]_vars

\* ------------------------------------------------ calls of the engine
\* grid is this.grid of an AlgorithmEngine built on a newly made grid
InitEngine == Inputs(MaxWalls, 0, MaxFood)

EngineRunDijkstra ==
  /\ CanCall("dijkstra")
  /\ LET st == Engine_runDijkstra(grid, startNode, finishNode, foodNodes)
     IN grid' = Engine_thisGridAfter(st.grid) /\ Return("dijkstra", st)

EngineRunAStar ==
  /\ CanCall("astar")
  /\ LET st == Engine_runAStar(grid, startNode, finishNode, foodNodes)
     IN grid' = Engine_thisGridAfter(st.grid) /\ Return("astar", st)

EngineRunBFS ==
  /\ CanCall("bfs")
  /\ LET st == Engine_runBFS(grid, startNode, finishNode, foodNodes)
     IN grid' = Engine_thisGridAfter(st.grid) /\ Return("bfs", st)

EngineRunDFS ==
  /\ CanCall("dfs")
  /\ LET st == Engine_runDFS(grid, startNode, finishNode, foodNodes)
     IN grid' = Engine_thisGridAfter(st.grid) /\ Return("dfs", st)

NextEngine ==
  \/ EngineRunDijkstra
  \/ EngineRunAStar
  \/ EngineRunBFS
  \/ EngineRunDFS

SpecEngine == InitEngine /\ [][NextEngine]_vars

\* ------------------------------ calls of the deep-cloning functions
\* the functions initialize their copy before they search and never write
\* the caller's cells, so each configuration is searched once
InitClone == Inputs(MaxWalls, 0, MaxFood)

CloneRunDijkstra ==
  /\ first = NoCall
  /\ LET st == Clone_runDijkstra(grid, startNode, finishNode, foodNodes)
     IN first' = CallRecord("dijkstra", IsFresh(grid), st)
  /\ UNCHANGED <<grid, startNode, finishNode, foodNodes, second, model, bus, viz>>

CloneRunAStar ==
  /\ first = NoCall
  /\ LET st == Clone_runAStar(grid, startNode, finishNode, foodNodes)
     IN first' = CallRecord("astar", IsFresh(grid), st)
  /\ UNCHANGED <<grid, startNode, finishNode, foodNodes, second, model, bus, viz>>

CloneRunBFS ==
  /\ first = NoCall
  /\ LET st == Clone_runBFS(grid, startNode, finishNode, foodNodes)
     IN first' = CallRecord("bfs", IsFresh(grid), st)
  /\ UNCHANGED <<grid, startNode, finishNode, foodNodes, second, model, bus, viz>>

CloneRunDFS ==
  /\ first = NoCall
  /\ LET st == Clone_runDFS(grid, startNode, finishNode, foodNodes)
     IN first' = CallRecord("dfs", IsFresh(grid), st)
  /\ UNCHANGED <<grid, startNode, finishNode, foodNodes, second, model, bus, viz>>

NextClone ==
  \/ CloneRunDijkstra
  \/ CloneRunAStar
  \/ CloneRunBFS
  \/ CloneRunDFS

SpecClone == InitClone /\ [][NextClone]_vars

\* ---------------------------------------------------- GridModel (core)
\* model is the object's fields: rows, cols, startNode and finishNode
\* (positions), foodNodes (a sequence of positions) and grid, a function
\* from <<row, col>> to the cell at grid[row][col].
Position(row, col) == [row |-> row, col |-> col]
GridPositions(rows, cols) == (0..(rows - 1)) \X (0..(cols - 1))

\* the cells of the grid in the order of the nested for loops
RowMajor(rows, cols) ==
  [i \in 1..(rows * cols) |-> <<(i - 1) \div cols, (i - 1) % cols>>]

GridModel_isValidPosition(m, row, col) ==
  row >= 0 /\ row < m.rows /\ col >= 0 /\ col < m.cols

HasFood(foods, row, col) ==
  \E i \in 1..Len(foods) : foods[i].row = row /\ foods[i].col = col

\* this.foodNodes.filter(food => !(food.row === row && food.col === col))
WithoutFood(foods, row, col) ==
  LET keep(food) == ~(food.row = row /\ food.col = col)
  IN SelectSeq(foods, keep)

GridModel_createNode(m, row, col) ==
  [isStart |-> row = m.startNode.row /\ col = m.startNode.col,
   isFinish |-> row = m.finishNode.row /\ col = m.finishNode.col,
   isFood |-> HasFood(m.foodNodes, row, col),
   isWall |-> FALSE, isWeight |-> FALSE, weightValue |-> 1,
   isVisited |-> FALSE]

GridModel_initializeGrid(m) ==
  [m EXCEPT !.grid = [p \in GridPositions(m.rows, m.cols) |->
                        GridModel_createNode(m, p[1], p[2])]]

\* the constructor
GridModel_new(rows, cols, start, finish) ==
  GridModel_initializeGrid([rows |-> rows, cols |-> cols, startNode |-> start,
                            finishNode |-> finish, foodNodes |-> <<>>,
                            grid |-> <<>>])

\* { ...node, ...properties }
Spread(node, properties) ==
  [f \in DOMAIN node |-> IF f \in DOMAIN properties THEN properties[f] ELSE node[f]]

\* properties.f read as a condition: undefined is false
Truthy(properties, f) == f \in DOMAIN properties /\ properties[f]

GridModel_updateNode(m, row, col, properties) ==
  IF ~GridModel_isValidPosition(m, row, col) THEN m
  ELSE
    LET node == m.grid[<<row, col>>]
        spread == Spread(node, properties)
        makesWall == Truthy(properties, "isWall") /\ spread.isWall
        updatedNode == IF makesWall
                       THEN [spread EXCEPT !.isFood = FALSE, !.isWeight = FALSE,
                                           !.weightValue = 1]
                       ELSE spread
        foods1 == IF makesWall /\ node.isFood
                  THEN WithoutFood(m.foodNodes, row, col)
                  ELSE m.foodNodes
        foods2 == IF "isFood" \in DOMAIN properties
                  THEN IF properties.isFood /\ ~node.isFood
                       THEN Append(foods1, Position(row, col))
                       ELSE IF ~properties.isFood /\ node.isFood
                       THEN WithoutFood(foods1, row, col)
                       ELSE foods1
                  ELSE foods1
        newStart == Truthy(properties, "isStart") /\ ~node.isStart
        prevStart == m.startNode
        grid1 == IF newStart /\ GridModel_isValidPosition(m, prevStart.row, prevStart.col)
                 THEN [m.grid EXCEPT ![<<prevStart.row, prevStart.col>>].isStart = FALSE]
                 ELSE m.grid
        newFinish == Truthy(properties, "isFinish") /\ ~node.isFinish
        prevFinish == m.finishNode
        grid2 == IF newFinish /\ GridModel_isValidPosition(m, prevFinish.row, prevFinish.col)
                 THEN [grid1 EXCEPT ![<<prevFinish.row, prevFinish.col>>].isFinish = FALSE]
                 ELSE grid1
    IN [m EXCEPT !.foodNodes = foods2,
                 !.startNode = IF newStart THEN Position(row, col) ELSE @,
                 !.finishNode = IF newFinish THEN Position(row, col) ELSE @,
                 !.grid = [grid2 EXCEPT ![<<row, col>>] = updatedNode]]

\* the nested loops of clearWallsAndWeights over the cells from index i on
RECURSIVE ClearWallsAndWeightsFrom(_, _, _)
ClearWallsAndWeightsFrom(m, cells, i) ==
  IF i > Len(cells) THEN m
  ELSE LET node == m.grid[cells[i]]
           m1 == IF node.isWall \/ node.isWeight
                 THEN GridModel_updateNode(m, cells[i][1], cells[i][2],
                        [isWall |-> FALSE, isWeight |-> FALSE, weightValue |-> 1])
                 ELSE m
       IN ClearWallsAndWeightsFrom(m1, cells, i + 1)

GridModel_clearWallsAndWeights(m) ==
  ClearWallsAndWeightsFrom(m, RowMajor(m.rows, m.cols), 1)

RECURSIVE ClearVisualizationFrom(_, _, _)
ClearVisualizationFrom(m, cells, i) ==
  IF i > Len(cells) THEN m
  ELSE ClearVisualizationFrom(
         GridModel_updateNode(m, cells[i][1], cells[i][2], [isVisited |-> FALSE]),
         cells, i + 1)

GridModel_clearVisualization(m) ==
  ClearVisualizationFrom(m, RowMajor(m.rows, m.cols), 1)

GridModel_clearAll(m) == GridModel_initializeGrid([m EXCEPT !.foodNodes = <<>>])

\* variant of setStartNode that does not clear the old start cell
GridModel_setStartNode_KeepOld(m, row, col) ==
  IF ~GridModel_isValidPosition(m, row, col) THEN m
  ELSE IF m.grid[<<row, col>>].isWall THEN m
  ELSE IF row = m.finishNode.row /\ col = m.finishNode.col THEN m
  ELSE
    LET m2 == [m EXCEPT !.startNode = Position(row, col)]
    IN GridModel_updateNode(m2, row, col,
         [isStart |-> TRUE, isWall |-> FALSE, isWeight |-> FALSE, isFood |-> FALSE])

GridModel_setStartNode(m, row, col) ==
  IF ~GridModel_isValidPosition(m, row, col) THEN m
  ELSE IF m.grid[<<row, col>>].isWall THEN m
  ELSE IF row = m.finishNode.row /\ col = m.finishNode.col THEN m
  ELSE
    LET m1 == GridModel_updateNode(m, m.startNode.row, m.startNode.col,
                                   [isStart |-> FALSE])
        m2 == [m1 EXCEPT !.startNode = Position(row, col)]
    IN GridModel_updateNode(m2, row, col,
         [isStart |-> TRUE, isWall |-> FALSE, isWeight |-> FALSE, isFood |-> FALSE])

GridModel_setFinishNode(m, row, col) ==
  IF ~GridModel_isValidPosition(m, row, col) THEN m
  ELSE IF m.grid[<<row, col>>].isWall THEN m
  ELSE IF row = m.startNode.row /\ col = m.startNode.col THEN m
  ELSE
    LET m1 == GridModel_updateNode(m, m.finishNode.row, m.finishNode.col,
                                   [isFinish |-> FALSE])
        m2 == [m1 EXCEPT !.finishNode = Position(row, col)]
    IN GridModel_updateNode(m2, row, col,
         [isFinish |-> TRUE, isWall |-> FALSE, isWeight |-> FALSE, isFood |-> FALSE])

GridModel_toggleWall(m, row, col) ==
  IF ~GridModel_isValidPosition(m, row, col) THEN m
  ELSE LET node == m.grid[<<row, col>>]
       IN IF node.isStart \/ node.isFinish THEN m
          ELSE GridModel_updateNode(m, row, col, [isWall |-> ~node.isWall])

\* variant of toggleFood that does not test isWall
GridModel_toggleFood_OnWalls(m, row, col) ==
  IF ~GridModel_isValidPosition(m, row, col) THEN m
  ELSE LET node == m.grid[<<row, col>>]
       IN IF node.isStart \/ node.isFinish THEN m
          ELSE GridModel_updateNode(m, row, col, [isFood |-> ~node.isFood])

GridModel_toggleFood(m, row, col) ==
  IF ~GridModel_isValidPosition(m, row, col) THEN m
  ELSE LET node == m.grid[<<row, col>>]
       IN IF node.isStart \/ node.isFinish \/ node.isWall THEN m
          ELSE GridModel_updateNode(m, row, col, [isFood |-> ~node.isFood])

GridModel_toggleWeight(m, row, col) ==
  IF ~GridModel_isValidPosition(m, row, col) THEN m
  ELSE LET node == m.grid[<<row, col>>]
           newIsWeight == ~node.isWeight
       IN IF node.isStart \/ node.isFinish \/ node.isWall \/ node.isFood THEN m
          ELSE GridModel_updateNode(m, row, col,
                 [isWeight |-> newIsWeight,
                  weightValue |-> IF newIsWeight THEN WeightCost ELSE 1])

GridModel_setNodeAsVisited(m, row, col) ==
  IF ~GridModel_isValidPosition(m, row, col) THEN m
  ELSE GridModel_updateNode(m, row, col, [isVisited |-> TRUE])

\* resize that keeps every waypoint listed
GridModel_resize_KeepFood(m, newRows, newCols) ==
  IF newRows <= 0 \/ newCols <= 0 THEN m
  ELSE
    LET clamp(pos) ==
          [row |-> IF pos.row >= newRows THEN newRows - 1 ELSE pos.row,
           col |-> IF pos.col >= newCols THEN newCols - 1 ELSE pos.col]
    IN GridModel_initializeGrid(
         [m EXCEPT !.rows = newRows, !.cols = newCols,
                   !.startNode = clamp(@), !.finishNode = clamp(@)])

GridModel_resize(m, newRows, newCols) ==
  IF newRows <= 0 \/ newCols <= 0 THEN m
  ELSE
    LET clamp(pos) ==
          [row |-> IF pos.row >= newRows THEN newRows - 1 ELSE pos.row,
           col |-> IF pos.col >= newCols THEN newCols - 1 ELSE pos.col]
        inside(food) == food.row < newRows /\ food.col < newCols
    IN GridModel_initializeGrid(
         [m EXCEPT !.rows = newRows, !.cols = newCols,
                   !.startNode = clamp(@), !.finishNode = clamp(@),
                   !.foodNodes = SelectSeq(@, inside)])

\* ------------------------------------------------ calls on a GridModel
\* row and column arguments, some of them outside every grid
RowArgs == 0..MaxGridRows
ColArgs == 0..MaxGridCols

InitGridModel ==
  /\ \E rows \in 1..MaxGridRows, cols \in 1..MaxGridCols :
       \E s, f \in GridPositions(rows, cols) :
         /\ s # f
         /\ model = GridModel_new(rows, cols, Position(s[1], s[2]), Position(f[1], f[2]))
  /\ grid = <<>>
  /\ startNode = Null
  /\ finishNode = Null
  /\ foodNodes = <<>>
  /\ first = NoCall
  /\ second = NoCall
  /\ bus = NoBus
  /\ viz = NoViz

SetStartNode ==
  /\ \E row \in RowArgs, col \in ColArgs :
       model' = GridModel_setStartNode(model, row, col)
  /\ UNCHANGED <<grid, startNode, finishNode, foodNodes, first, second, bus, viz>>

SetFinishNode ==
  /\ \E row \in RowArgs, col \in ColArgs :
       model' = GridModel_setFinishNode(model, row, col)
  /\ UNCHANGED <<grid, startNode, finishNode, foodNodes, first, second, bus, viz>>

ToggleWall ==
  /\ \E row \in RowArgs, col \in ColArgs :
       model' = GridModel_toggleWall(model, row, col)
  /\ UNCHANGED <<grid, startNode, finishNode, foodNodes, first, second, bus, viz>>

ToggleFood ==
  /\ \E row \in RowArgs, col \in ColArgs :
       model' = GridModel_toggleFood(model, row, col)
  /\ UNCHANGED <<grid, startNode, finishNode, foodNodes, first, second, bus, viz>>

ToggleWeight ==
  /\ \E row \in RowArgs, col \in ColArgs :
       model' = GridModel_toggleWeight(model, row, col)
  /\ UNCHANGED <<grid, startNode, finishNode, foodNodes, first, second, bus, viz>>

SetNodeAsVisited ==
  /\ \E row \in RowArgs, col \in ColArgs :
       model' = GridModel_setNodeAsVisited(model, row, col)
  /\ UNCHANGED <<grid, startNode, finishNode, foodNodes, first, second, bus, viz>>

ClearWallsAndWeights ==
  /\ model' = GridModel_clearWallsAndWeights(model)
  /\ UNCHANGED <<grid, startNode, finishNode, foodNodes, first, second, bus, viz>>

ClearVisualization ==
  /\ model' = GridModel_clearVisualization(model)
  /\ UNCHANGED <<grid, startNode, finishNode, foodNodes, first, second, bus, viz>>

ClearAll ==
  /\ model' = GridModel_clearAll(model)
  /\ UNCHANGED <<grid, startNode, finishNode, foodNodes, first, second, bus, viz>>

Resize ==
  /\ \E newRows \in 0..MaxGridRows, newCols \in 0..MaxGridCols :
       model' = GridModel_resize(model, newRows, newCols)
  /\ UNCHANGED <<grid, startNode, finishNode, foodNodes, first, second, bus, viz>>

NextGridModel ==
  \/ SetStartNode
  \/ SetFinishNode
  \/ ToggleWall
  \/ ToggleFood
  \/ ToggleWeight
  \/ SetNodeAsVisited
  \/ ClearWallsAndWeights
  \/ ClearVisualization
  \/ ClearAll
  \/ Resize

SpecGridModel == InitGridModel /\ [][NextGridModel]_vars

\* ------------------------------------------------------------- EventBus
\* core/EventBus.ts ("plain") and the EventBus with eventStack and
\* isDispatching ("guarded").  events[e] is the array this.events[e] and
\* keys the set of names for which this.events has an entry.  A publish
\* call that is delivering is a frame: forEach runs over the array object it
\* read when it began (subscribe pushes behind its range, unsubscribe and
\* clear replace or drop the entry), so pending is the rest of that array.
\* A callback is code of the subscriber: while it runs it may call any
\* method of the bus, return, or throw.
MaxSubscribers == 2
MaxDepth == 2
maxStackDepth == 10

EventNames == {"E", "F"}
Callbacks == {"cb1", "cb2"}
NoCallback == "none"
NoOutcome == [op |-> "none", eventName |-> "none", callback |-> NoCallback,
              threw |-> FALSE, reentrant |-> FALSE, accepted |-> FALSE]

EventBus_new(kind) ==
  [kind |-> kind, events |-> [e \in EventNames |-> <<>>], keys |-> {},
   eventStack |-> <<>>, isDispatching |-> FALSE,
   frames |-> <<>>, handles |-> {}, last |-> NoOutcome]

Contains(list, x) == \E i \in 1..Len(list) : list[i] = x

\* subscribe: creates the array when there is none, pushes the callback and
\* returns the unsubscribe closure over (eventName, callback)
EventBus_subscribe(b, eventName, callback) ==
  [b EXCEPT !.events[eventName] = Append(@, callback),
            !.keys = @ \cup {eventName},
            !.handles = @ \cup {[eventName |-> eventName, callback |-> callback]},
            !.last = NoOutcome]

\* the closure subscribe returned: this.events[eventName].filter(...) is a
\* TypeError when this.events has no entry for eventName
EventBus_unsubscribe(b, eventName, callback) ==
  LET keep(cb) == cb # callback
      outcome == [NoOutcome EXCEPT !.op = "unsubscribe", !.eventName = eventName,
                                   !.callback = callback]
  IN IF eventName \notin b.keys
     THEN [b EXCEPT !.last = [outcome EXCEPT !.threw = TRUE]]
     ELSE [b EXCEPT !.events[eventName] = SelectSeq(@, keep),
                    !.last = outcome]

EventBus_clear(b, eventName) ==
  [b EXCEPT !.events[eventName] = <<>>, !.keys = @ \ {eventName},
            !.last = NoOutcome]

EventBus_clearAll(b) ==
  [b EXCEPT !.events = [e \in EventNames |-> <<>>], !.keys = {},
            !.last = NoOutcome]

\* clearAll of the guarded bus
Guarded_clearAll(b) ==
  [EventBus_clearAll(b) EXCEPT !.eventStack = <<>>, !.isDispatching = FALSE]

\* a publish call up to the start of its forEach
Frame(b, eventName) ==
  [eventName |-> eventName, pending |-> b.events[eventName],
   running |-> NoCallback, wasDispatching |-> b.isDispatching]

PublishOutcome(b, eventName, accepted) ==
  [NoOutcome EXCEPT !.op = "publish", !.eventName = eventName,
                    !.reentrant = \E i \in 1..Len(b.frames) :
                                    b.frames[i].eventName = eventName,
                    !.accepted = accepted]

EventBus_publish(b, eventName) ==
  IF eventName \notin b.keys
  THEN [b EXCEPT !.last = PublishOutcome(b, eventName, FALSE)]
  ELSE [b EXCEPT !.frames = Append(@, Frame(b, eventName)),
                 !.last = PublishOutcome(b, eventName, TRUE)]

\* publish of the guarded bus, up to the start of its forEach
Guarded_publish(b, eventName) ==
  IF eventName \notin b.keys
  THEN [b EXCEPT !.last = PublishOutcome(b, eventName, FALSE)]
  ELSE IF Contains(b.eventStack, eventName)
  THEN [b EXCEPT !.last = PublishOutcome(b, eventName, FALSE)]
  ELSE IF Len(b.eventStack) >= maxStackDepth
  THEN [b EXCEPT !.last = PublishOutcome(b, eventName, FALSE)]
  ELSE [b EXCEPT !.eventStack = Append(@, eventName),
                 !.isDispatching = TRUE,
                 !.frames = Append(@, Frame(b, eventName)),
                 !.last = PublishOutcome(b, eventName, TRUE)]

\* the finally block of the guarded publish
Guarded_finally(b, eventName) ==
  LET popped == IF b.eventStack # <<>> /\ b.eventStack[Len(b.eventStack)] = eventName
                THEN SubSeq(b.eventStack, 1, Len(b.eventStack) - 1)
                ELSE b.eventStack
  IN [b EXCEPT !.eventStack = popped,
               !.isDispatching = IF Len(popped) = 0 THEN FALSE ELSE @]

TopFrame(b) == b.frames[Len(b.frames)]
PopFrame(b) == [b EXCEPT !.frames = SubSeq(@, 1, Len(@) - 1)]

\* forEach calls the next callback of the array
ForEachCall(b) ==
  [b EXCEPT !.frames[Len(b.frames)].running = Head(TopFrame(b).pending),
            !.frames[Len(b.frames)].pending = Tail(@)]

\* forEach is done: the statements after it, and the return
EventBus_publishEnd(b) == PopFrame(b)

Guarded_publishEnd(b) ==
  LET top == TopFrame(b)
      b1 == IF ~top.wasDispatching THEN [b EXCEPT !.isDispatching = FALSE] ELSE b
  IN PopFrame(Guarded_finally(b1, top.eventName))

\* a callback throws: the exception leaves forEach and publish
EventBus_publishThrows(b) == PopFrame(b)

Guarded_publishThrows(b) == PopFrame(Guarded_finally(b, TopFrame(b).eventName))

\* ---------------------------------------------------- calls on an EventBus
InitBus ==
  /\ bus \in {EventBus_new("plain"), EventBus_new("guarded")}
  /\ grid = <<>>
  /\ startNode = Null
  /\ finishNode = Null
  /\ foodNodes = <<>>
  /\ first = NoCall
  /\ second = NoCall
  /\ model = NoModel
  /\ viz = NoViz

\* code of a user of the bus runs: at top level, or inside a callback
CodeRuns ==
  IF bus.frames = <<>> THEN TRUE ELSE TopFrame(bus).running # NoCallback

Subscribe ==
  /\ CodeRuns
  /\ \E eventName \in EventNames, callback \in Callbacks :
       /\ Len(bus.events[eventName]) < MaxSubscribers
       /\ bus' = EventBus_subscribe(bus, eventName, callback)
  /\ UNCHANGED <<grid, startNode, finishNode, foodNodes, first, second, model, viz>>

Unsubscribe ==
  /\ CodeRuns
  /\ \E h \in bus.handles :
       bus' = EventBus_unsubscribe(bus, h.eventName, h.callback)
  /\ UNCHANGED <<grid, startNode, finishNode, foodNodes, first, second, model, viz>>

Clear ==
  /\ CodeRuns
  /\ \E eventName \in EventNames : bus' = EventBus_clear(bus, eventName)
  /\ UNCHANGED <<grid, startNode, finishNode, foodNodes, first, second, model, viz>>

ClearAllEvents ==
  /\ CodeRuns
  /\ bus' = IF bus.kind = "guarded" THEN Guarded_clearAll(bus)
            ELSE EventBus_clearAll(bus)
  /\ UNCHANGED <<grid, startNode, finishNode, foodNodes, first, second, model, viz>>

Publish ==
  /\ CodeRuns
  /\ Len(bus.frames) < MaxDepth
  /\ \E eventName \in EventNames :
       bus' = IF bus.kind = "guarded" THEN Guarded_publish(bus, eventName)
              ELSE EventBus_publish(bus, eventName)
  /\ UNCHANGED <<grid, startNode, finishNode, foodNodes, first, second, model, viz>>

InvokeCallback ==
  /\ bus.frames # <<>>
  /\ TopFrame(bus).running = NoCallback
  /\ TopFrame(bus).pending # <<>>
  /\ bus' = [ForEachCall(bus) EXCEPT !.last = NoOutcome]
  /\ UNCHANGED <<grid, startNode, finishNode, foodNodes, first, second, model, viz>>

CallbackReturns ==
  /\ bus.frames # <<>>
  /\ TopFrame(bus).running # NoCallback
  /\ bus' = [bus EXCEPT !.frames[Len(bus.frames)].running = NoCallback,
                        !.last = NoOutcome]
  /\ UNCHANGED <<grid, startNode, finishNode, foodNodes, first, second, model, viz>>

CallbackThrows ==
  /\ bus.frames # <<>>
  /\ TopFrame(bus).running # NoCallback
  /\ bus' = [(IF bus.kind = "guarded" THEN Guarded_publishThrows(bus)
              ELSE EventBus_publishThrows(bus)) EXCEPT !.last = NoOutcome]
  /\ UNCHANGED <<grid, startNode, finishNode, foodNodes, first, second, model, viz>>

PublishReturns ==
  /\ bus.frames # <<>>
  /\ TopFrame(bus).running = NoCallback
  /\ TopFrame(bus).pending = <<>>
  /\ bus' = [(IF bus.kind = "guarded" THEN Guarded_publishEnd(bus)
              ELSE EventBus_publishEnd(bus)) EXCEPT !.last = NoOutcome]
  /\ UNCHANGED <<grid, startNode, finishNode, foodNodes, first, second, model, viz>>

NextBus ==
  \/ Subscribe
  \/ Unsubscribe
  \/ Clear
  \/ ClearAllEvents
  \/ Publish
  \/ InvokeCallback
  \/ CallbackReturns
  \/ CallbackThrows
  \/ PublishReturns

SpecBus == InitBus /\ [][NextBus]_vars

\* -------------------------------------------------- VisualizationEngine
\* The lists matter to the engine by their lengths only: visitedLen and
\* pathLen are the lengths of visitedNodesInOrder and of
\* shortestPathNodesInOrder, and a node is named by its index.  timers is the
\* browser's list of pending timers in the order of their creation; due is
\* the time left until a timer expires, in ticks of half a speedFactor.
\* Timers of kind "visited" and "shortest" are the ones whose ids are in
\* visitedTimeouts and shortestPathTimeouts; the timer that calls
\* animateShortestPath ("handoff", line 1194) is in neither.  Every node has
\* its DOM element.  visitedSteps, shortestSteps and completed count the
\* VISUALIZATION_STEP and VISUALIZATION_COMPLETED events published in the
\* current visualization (2 stands for 2 or more);
\* ignored tells that the last step was a timer callback that returned at its
\* test of animationState; callsLeft bounds the calls the user still makes.
MaxVisited == 3
MaxPath == 3
MaxCalls == 6
Step == 2

NoSteps(n) == [i \in 0..(n - 1) |-> 0]

VisualizationEngine_new ==
  [visitedLen |-> 0, pathLen |-> 0, animationState |-> "idle",
   currentVisitedIndex |-> 0, currentShortestPathIndex |-> 0,
   timers |-> <<>>,
   visitedSteps |-> NoSteps(MaxVisited), shortestSteps |-> NoSteps(MaxPath),
   completed |-> 0, ignored |-> FALSE, callsLeft |-> MaxCalls]

Timer(kind, i, due) == [kind |-> kind, i |-> i, due |-> due]

Count(n) == IF n >= 2 THEN 2 ELSE n + 1

\* the tests this.animationState !== VisualizationState.RUNNING of
\* animateVisitedNodes, animateShortestPath and the timer callbacks
IsRunning_Always(v) == TRUE

IsRunning(v) == v.animationState = "running"

Tracked(t) == t.kind \in {"visited", "shortest"}
Untracked(t) == ~Tracked(t)

clearTimeouts(v) == [v EXCEPT !.timers = SelectSeq(@, Untracked)]

complete(v) ==
  [v EXCEPT !.animationState = "completed", !.completed = Count(@)]

animateVisitedNodes(v) ==
  IF ~IsRunning(v) THEN v
  ELSE LET from == v.currentVisitedIndex
       IN [v EXCEPT !.timers = @ \o
             [k \in 1..(v.visitedLen - from) |->
                Timer("visited", from + k - 1, Step * (k - 1))]]

animateShortestPath(v) ==
  IF ~IsRunning(v) THEN v
  ELSE IF v.pathLen = 0 THEN complete(v)
  ELSE LET from == v.currentShortestPathIndex
       IN [v EXCEPT !.timers = @ \o
             [k \in 1..(v.pathLen - from) |->
                Timer("shortest", from + k - 1, 2 * Step * (k - 1))]]

reset(v) ==
  IF /\ v.animationState = "idle"
     /\ v.currentVisitedIndex = 0
     /\ v.currentShortestPathIndex = 0
  THEN v
  ELSE [clearTimeouts(v) EXCEPT !.currentVisitedIndex = 0,
                                !.currentShortestPathIndex = 0,
                                !.animationState = "idle"]

\* the events counted belong to one visualization: setAlgorithmResults and
\* a start() that does not resume a paused run begin the next one
NoEvents(v) ==
  [v EXCEPT !.visitedSteps = NoSteps(MaxVisited),
            !.shortestSteps = NoSteps(MaxPath),
            !.completed = 0]

BeginVisualization(v) ==
  IF v.animationState = "paused" THEN v ELSE NoEvents(v)

setAlgorithmResults(v, visitedLen, pathLen) ==
  [NoEvents(reset(v)) EXCEPT !.visitedLen = visitedLen, !.pathLen = pathLen]

start(v) ==
  IF v.animationState = "running" THEN v
  ELSE LET v1 == [BeginVisualization(v) EXCEPT !.animationState = "running"]
       IN IF v1.currentVisitedIndex < v1.visitedLen THEN animateVisitedNodes(v1)
          ELSE IF v1.currentShortestPathIndex < v1.pathLen
          THEN animateShortestPath(v1)
          ELSE complete(v1)

pause(v) ==
  IF v.animationState # "running" THEN v
  ELSE clearTimeouts([v EXCEPT !.animationState = "paused"])

stop(v) ==
  IF v.animationState = "idle" THEN v
  ELSE [clearTimeouts(v) EXCEPT !.currentVisitedIndex = 0,
                                !.currentShortestPathIndex = 0,
                                !.animationState = "idle"]

\* the callback of a timer of animateVisitedNodes (lines 1165-1198)
VisitedCallback(v, i) ==
  IF ~IsRunning(v) THEN [v EXCEPT !.ignored = TRUE]
  ELSE LET v1 == [v EXCEPT !.visitedSteps[i] = Count(@),
                           !.currentVisitedIndex = i + 1]
       IN IF i = v.visitedLen - 1
          THEN [v1 EXCEPT !.timers = Append(@, Timer("handoff", 0, 2 * Step))]
          ELSE v1

\* the callback of the timer of line 1194
HandoffCallback(v) ==
  IF ~IsRunning(v) THEN [v EXCEPT !.ignored = TRUE]
  ELSE animateShortestPath(v)

\* the callback of a timer of animateShortestPath (lines 1226-1256)
ShortestCallback(v, i) ==
  IF ~IsRunning(v) THEN [v EXCEPT !.ignored = TRUE]
  ELSE LET v1 == [v EXCEPT !.shortestSteps[i] = Count(@),
                           !.currentShortestPathIndex = i + 1]
       IN IF i = v.pathLen - 1 THEN complete(v1) ELSE v1

\* the pending timer the browser runs next: of the expired ones the one
\* created first
Expired(v) == {k \in 1..Len(v.timers) : v.timers[k].due = 0}
NextTimer(v) == CHOOSE k \in Expired(v) : \A j \in Expired(v) : k <= j

RemoveAt(s, k) == SubSeq(s, 1, k - 1) \o SubSeq(s, k + 1, Len(s))

RunTimer(v) ==
  LET k == NextTimer(v)
      t == v.timers[k]
      v1 == [v EXCEPT !.timers = RemoveAt(@, k), !.ignored = FALSE]
  IN IF t.kind = "visited" THEN VisitedCallback(v1, t.i)
     ELSE IF t.kind = "handoff" THEN HandoffCallback(v1)
     ELSE ShortestCallback(v1, t.i)

\* one tick of time passes
Elapse(v) ==
  [v EXCEPT !.timers = [k \in 1..Len(@) |-> [@[k] EXCEPT !.due = @ - 1]],
            !.ignored = FALSE]

\* a call of the user
Called(v) == [v EXCEPT !.callsLeft = @ - 1, !.ignored = FALSE]

\* ----------------------------------------- calls on a VisualizationEngine
InitViz ==
  /\ viz = VisualizationEngine_new
  /\ grid = <<>>
  /\ startNode = Null
  /\ finishNode = Null
  /\ foodNodes = <<>>
  /\ first = NoCall
  /\ second = NoCall
  /\ model = NoModel
  /\ bus = NoBus

SetAlgorithmResults ==
  /\ viz.callsLeft > 0
  /\ \E visitedLen \in 0..MaxVisited, pathLen \in 0..MaxPath :
       viz' = setAlgorithmResults(Called(viz), visitedLen, pathLen)
  /\ UNCHANGED <<grid, startNode, finishNode, foodNodes, first, second, model, bus>>

Start ==
  /\ viz.callsLeft > 0
  /\ viz' = start(Called(viz))
  /\ UNCHANGED <<grid, startNode, finishNode, foodNodes, first, second, model, bus>>

Pause ==
  /\ viz.callsLeft > 0
  /\ viz' = pause(Called(viz))
  /\ UNCHANGED <<grid, startNode, finishNode, foodNodes, first, second, model, bus>>

Stop ==
  /\ viz.callsLeft > 0
  /\ viz' = stop(Called(viz))
  /\ UNCHANGED <<grid, startNode, finishNode, foodNodes, first, second, model, bus>>

Reset ==
  /\ viz.callsLeft > 0
  /\ viz' = reset(Called(viz))
  /\ UNCHANGED <<grid, startNode, finishNode, foodNodes, first, second, model, bus>>

TimerFires ==
  /\ Expired(viz) # {}
  /\ viz' = RunTimer(viz)
  /\ UNCHANGED <<grid, startNode, finishNode, foodNodes, first, second, model, bus>>

Tick ==
  /\ viz.timers # <<>>
  /\ Expired(viz) = {}
  /\ viz' = Elapse(viz)
  /\ UNCHANGED <<grid, startNode, finishNode, foodNodes, first, second, model, bus>>

NextViz ==
  \/ SetAlgorithmResults
  \/ Start
  \/ Pause
  \/ Stop
  \/ Reset
  \/ TimerFires
  \/ Tick

SpecViz == InitViz /\ [][NextViz]_vars

\* every scheduled timer eventually fires: time passes and the browser
\* runs the timers that expired
SpecVizFair == SpecViz /\ WF_vars(Tick) /\ WF_vars(TimerFires)

\* ================================================================ claims
\* reference definitions, independent of the search code
NeighborSet(c) ==
  {n \in {c - Cols, c + Cols, c - 1, c + 1} :
     n \in Cells /\ Abs(RowOf(n) - RowOf(c)) + Abs(ColOf(n) - ColOf(c)) = 1}
StepCost(c) == IF grid[c].isWeight THEN grid[c].weightValue ELSE 1
MinOf(S) ==
  IF S \ {Infinity} = {} THEN Infinity
  ELSE CHOOSE m \in S \ {Infinity} : \A x \in S \ {Infinity} : m <= x

\* cheapest cost from src to every cell with at most k steps (Bellman-Ford);
\* unit = TRUE counts steps instead of weights.  d is a sequence over Cells.
RECURSIVE RelaxCells(_, _, _)
RelaxCells(d, i, unit) ==
  IF i = 0 THEN <<>>
  ELSE Append(RelaxCells(d, i - 1, unit),
              IF grid[i].isWall THEN Infinity
              ELSE MinOf({d[i]} \cup
                         {Plus(d[n], IF unit THEN 1 ELSE StepCost(i)) :
                            n \in NeighborSet(i)}))

RECURSIVE Cheapest(_, _, _)
Cheapest(d, k, unit) ==
  IF k = 0 THEN d
  ELSE LET d1 == RelaxCells(d, NumCells, unit)
       IN IF d1 = d THEN d ELSE Cheapest(d1, k - 1, unit)

MinCost(src, dst) ==
  Cheapest([c \in 1..NumCells |-> IF c = src THEN 0 ELSE Infinity], NumCells, FALSE)[dst]
MinHops(src, dst) ==
  Cheapest([c \in 1..NumCells |-> IF c = src THEN 0 ELSE Infinity], NumCells, TRUE)[dst]
Reachable(src, dst) == MinHops(src, dst) # Infinity

RECURSIVE PathCost(_)
PathCost(path) ==
  IF Len(path) <= 1 THEN 0
  ELSE StepCost(path[Len(path)]) + PathCost(SubSeq(path, 1, Len(path) - 1))

Last(s) == s[Len(s)]
NoDuplicates(s) == \A i, j \in 1..Len(s) : i # j => s[i] # s[j]
NoWalls(s) == \A i \in 1..Len(s) : ~grid[s[i]].isWall
Connected(s) == \A i \in 1..(Len(s) - 1) : s[i + 1] \in NeighborSet(s[i])
Calls == {c \in {first, second} : c # NoCall}
FreshStatic == FreshGrid(Walls, Weights)

\* C1: runDijkstra without waypoints on a fresh grid, finish reachable: the
\* path runs from start to finish and its cost is the minimum route cost.
C1_DijkstraOptimal ==
  (first.alg = "dijkstra" /\ foodNodes = <<>> /\ Reachable(startNode, finishNode))
    => LET path == first.nodesInShortestPathOrder
       IN /\ path # <<>>
          /\ path[1] = startNode
          /\ Last(path) = finishNode
          /\ PathCost(path) = MinCost(startNode, finishNode)

\* C1 witness: Dijkstra returned a path that is longer in cells than the
\* fewest-hops route, because of a weight it went around.
C1_Witness ==
  /\ first.alg = "dijkstra"
  /\ foodNodes = <<>>
  /\ Reachable(startNode, finishNode)
  /\ Len(first.nodesInShortestPathOrder) > MinHops(startNode, finishNode) + 1

\* C2: on identical fresh grids without waypoints the A* path and the Dijkstra
\* path have the same cost, and one is empty exactly when the other is.
C2_AStarMatchesDijkstra ==
  (first.alg = "astar" /\ foodNodes = <<>>)
    => LET dijkstra == runDijkstra(FreshStatic, startNode, finishNode, <<>>)
       IN /\ PathCost(first.nodesInShortestPathOrder) = PathCost(dijkstra.allNodesInPath)
          /\ (first.nodesInShortestPathOrder = <<>>) <=> (dijkstra.allNodesInPath = <<>>)

\* C2 witness: A* returned a path around a weight.
C2_Witness ==
  /\ first.alg = "astar"
  /\ foodNodes = <<>>
  /\ first.nodesInShortestPathOrder # <<>>
  /\ Len(first.nodesInShortestPathOrder) > MinHops(startNode, finishNode) + 1

C4_WaypointComposition ==
  (first.alg = "dijkstra" /\ Len(foodNodes) = 1)
    => first.visitedNodesInOrder =
         runDijkstra(FreshStatic, startNode, foodNodes[1], <<>>).allVisitedNodes
           \o runDijkstra(FreshStatic, foodNodes[1], finishNode, <<>>).allVisitedNodes

\* C5: calling a search function twice in succession with the same grid
\* object and arguments returns the same two sequences both times.
C5_SecondCallIdentical ==
  second # NoCall
    => /\ second.returned = first.returned
       /\ second.visitedNodesInOrder = first.visitedNodesInOrder
       /\ second.nodesInShortestPathOrder = first.nodesInShortestPathOrder

\* every leg of the call reached its target
AllLegsReached(c) ==
  /\ Len(c.legs) = Len(foodNodes) + 1
  /\ \A i \in 1..Len(c.legs) : c.legs[i].pathToTarget # <<>>

\* C7: runBFS/runDFS with any waypoint list: when the call returns, the path
\* ends at finish if and only if every leg reached its target.
C7_EndsAtFinishIffAllLegs ==
  \A c \in Calls :
    (c.alg \in {"bfs", "dfs"} /\ c.returned)
      => ((c.nodesInShortestPathOrder # <<>>
           /\ Last(c.nodesInShortestPathOrder) = finishNode)
          <=> AllLegsReached(c))

\* C9: runDFS without waypoints on a fresh grid: a non-empty path runs from
\* start to finish, has no wall, no cell twice, and moves between neighbours.
C9_DFSPathValid ==
  (first.alg = "dfs" /\ foodNodes = <<>> /\ first.nodesInShortestPathOrder # <<>>)
    => LET path == first.nodesInShortestPathOrder
       IN /\ path[1] = startNode
          /\ Last(path) = finishNode
          /\ NoWalls(path)
          /\ NoDuplicates(path)
          /\ Connected(path)

\* C9 witness: DFS returned a path that is not a shortest one.
C9_Witness ==
  /\ first.alg = "dfs"
  /\ foodNodes = <<>>
  /\ Len(first.nodesInShortestPathOrder) > MinHops(startNode, finishNode) + 1

\* C10: for all four functions, the visited trace of every single leg has no
\* wall cell and no cell twice.
C10_LegTraceClean ==
  \A c \in Calls :
    \A i \in 1..Len(c.legs) :
      /\ NoWalls(c.legs[i].nodesInOrder)
      /\ NoDuplicates(c.legs[i].nodesInOrder)

\* C10 witness: a second leg that visited several cells on a grid with walls.
C10_Witness ==
  /\ first # NoCall
  /\ Walls # {}
  /\ Len(first.legs) = 2
  /\ Len(first.legs[2].nodesInOrder) > 2

\* C6: no AlgorithmEngine run changes a cell of the grid the engine holds.
C6_EngineGridUntouched == [][grid' = grid]_vars

\* C8: AlgorithmEngine.runDijkstra and runBFS without waypoints on a grid
\* without walls and weights, cells in their initial state, return a path of
\* |start.row-finish.row| + |start.col-finish.col| + 1 cells from start to
\* finish.
C8_EngineManhattanPath ==
  (first.alg \in {"dijkstra", "bfs"} /\ foodNodes = <<>>
     /\ Walls = {} /\ Weights = {})
    => LET path == first.nodesInShortestPathOrder
       IN /\ Len(path) = calculateManhattanDistance(startNode, finishNode) + 1
          /\ PositionOf(path[1]) = startNode
          /\ PositionOf(Last(path)) = finishNode

\* the target of the first leg of the call
FirstTarget == TargetNodes(finishNode, foodNodes)[1]

\* C11: for all four functions called without waypoints: when no wall-free
\* route joins start to finish, the call returns and its path is empty.
C11_UnreachableEmptyPath ==
  \A c \in Calls :
    (foodNodes = <<>> /\ ~Reachable(startNode, finishNode))
      => /\ c.returned
         /\ c.nodesInShortestPathOrder = <<>>

\* C11 witness: a call that explored cells beyond start on a grid whose walls
\* cut start off from finish.
C11_Witness ==
  /\ first # NoCall
  /\ foodNodes = <<>>
  /\ ~Reachable(startNode, finishNode)
  /\ Len(first.visitedNodesInOrder) > 1
  /\ first.nodesInShortestPathOrder = <<>>

\* C12: for all four functions: when the first leg cannot reach its target
\* from start, the visited trace and the path of the result are both empty.
C12_FirstLegUnreachableBothEmpty ==
  (first # NoCall /\ ~Reachable(startNode, FirstTarget))
    => /\ first.returned
       /\ first.visitedNodesInOrder = <<>>
       /\ first.nodesInShortestPathOrder = <<>>

\* C13: for all four functions on a fresh grid without walls and waypoints:
\* when finish is a horizontal or vertical neighbour of start the path is
\* exactly <<start, finish>>.
C13_AdjacentTwoCells ==
  (first # NoCall /\ foodNodes = <<>> /\ Walls = {}
     /\ finishNode \in NeighborSet(startNode))
    => first.nodesInShortestPathOrder = <<startNode, finishNode>>

\* C13 witness: DFS explored other cells before it popped the adjacent finish.
C13_Witness ==
  /\ first.alg = "dfs"
  /\ foodNodes = <<>>
  /\ Walls = {}
  /\ finishNode \in NeighborSet(startNode)
  /\ Len(first.visitedNodesInOrder) > 2
  /\ first.nodesInShortestPathOrder = <<startNode, finishNode>>

\* C14: a call whose start equals finish, or whose start or finish is a wall,
\* is rejected: it returns no visited trace and no path.
C14_InvalidEndpointsNoResult ==
  (first # NoCall
     /\ (startNode = finishNode \/ grid[startNode].isWall \/ grid[finishNode].isWall))
    => /\ first.visitedNodesInOrder = <<>>
       /\ first.nodesInShortestPathOrder = <<>>

\* cells of the GridModel's grid that carry a flag
StartCells == {p \in DOMAIN model.grid : model.grid[p].isStart}
FinishCells == {p \in DOMAIN model.grid : model.grid[p].isFinish}
WallCells == {p \in DOMAIN model.grid : model.grid[p].isWall}

\* C15: after every GridModel call exactly one cell has isStart and exactly
\* one has isFinish, and they are the cells at getStartNode() and
\* getFinishNode().
C15_OneStartOneFinish ==
  /\ StartCells = {<<model.startNode.row, model.startNode.col>>}
  /\ FinishCells = {<<model.finishNode.row, model.finishNode.col>>}

\* C15 witness: a resize has clamped start and finish onto one cell, which
\* carries both flags.
C15_Witness ==
  /\ model.startNode = model.finishNode
  /\ model.rows * model.cols > 1
  /\ StartCells = FinishCells
  /\ Cardinality(StartCells) = 1

\* C16: after any sequence of GridModel calls no cell has isWall together
\* with isFood, isWeight, isStart or isFinish.
C16_WallExcludesOtherRoles ==
  \A p \in WallCells :
    LET node == model.grid[p]
    IN ~node.isFood /\ ~node.isWeight /\ ~node.isStart /\ ~node.isFinish

\* C16 witness: a grid that holds a wall and, on another cell, a waypoint.
C16_Witness ==
  /\ WallCells # {}
  /\ \E p \in DOMAIN model.grid : model.grid[p].isFood /\ ~model.grid[p].isWall

\* C17: every call of runBFS or runDFS with one or more waypoints returns:
\* on every leg the walk along previousNode reaches a cell whose previousNode
\* is null within rows x cols steps.
C17_BFSDFSWithWaypointsReturn ==
  \A c \in Calls :
    (c.alg \in {"bfs", "dfs"} /\ foodNodes # <<>>) => c.returned

\* concatenation of the path segments of the legs
RECURSIVE ConcatSegments(_)
ConcatSegments(legs) ==
  IF legs = <<>> THEN <<>>
  ELSE legs[1].pathToTarget \o ConcatSegments(Tail(legs))

\* C18: runDijkstra/runAStar with waypoints on a fresh grid, every leg
\* reaching its target: the path is the concatenation of one segment per leg,
\* and each segment begins at its leg's start cell and ends at its target.
C18_SegmentsStartAtLegStart ==
  (first.alg \in {"dijkstra", "astar"} /\ foodNodes # <<>> /\ AllLegsReached(first))
    => /\ first.nodesInShortestPathOrder = ConcatSegments(first.legs)
       /\ \A k \in 1..Len(first.legs) :
            LET segment == first.legs[k].pathToTarget
            IN /\ segment[1] = first.legs[k].start
               /\ Last(segment) = first.legs[k].target

\* C19: in the deep-cloning functions, when a leg does not reach its target
\* no later leg is searched: a leg without a path is the last leg whose
\* cells the result holds.
C19_CloneStopsAtFailedLeg ==
  first # NoCall
    => \A k \in 1..Len(first.legs) :
         first.legs[k].pathToTarget = <<>> => k = Len(first.legs)

\* C20: in the deep-cloning functions, with valid endpoints and any waypoint
\* list, every walk of getNodesInShortestPathOrder meets a cell whose
\* previousNode is null before safetyLimit is used up.
C20_CloneChainEndsBeforeLimit ==
  first # NoCall
    => \A k \in 1..Len(first.legs) : first.legs[k].ends

\* C25: getStartNode() and getFinishNode() denote different cells after every
\* sequence of GridModel calls.
C25_StartFinishDistinct == model.startNode # model.finishNode

\* the positions of the cells with isFood
FoodCells == {p \in DOMAIN model.grid : model.grid[p].isFood}

\* s without the entries that are not in keep
RECURSIVE Restrict(_, _)
Restrict(s, keep) ==
  IF s = <<>> THEN <<>>
  ELSE IF Head(s) \in keep THEN <<Head(s)>> \o Restrict(Tail(s), keep)
  ELSE Restrict(Tail(s), keep)

\* the list lists exactly the isFood cells, each once, none of them a wall
\* or out of bounds
FoodListExact ==
  /\ {<<model.foodNodes[i].row, model.foodNodes[i].col>> :
         i \in 1..Len(model.foodNodes)} = FoodCells
  /\ \A i, j \in 1..Len(model.foodNodes) :
        i # j => model.foodNodes[i] # model.foodNodes[j]
  /\ \A i \in 1..Len(model.foodNodes) :
        /\ GridModel_isValidPosition(model, model.foodNodes[i].row,
                                     model.foodNodes[i].col)
        /\ ~model.grid[<<model.foodNodes[i].row, model.foodNodes[i].col>>].isWall

\* a call keeps the positions that stay listed in their order, and lists a
\* cell newly made food after all of them
FoodOrderKept ==
  LET old == {model.foodNodes[i] : i \in 1..Len(model.foodNodes)}
      new == {model.foodNodes'[i] : i \in 1..Len(model.foodNodes')}
      kept == Restrict(model.foodNodes, new)
  IN /\ Len(model.foodNodes') >= Len(kept)
     /\ SubSeq(model.foodNodes', 1, Len(kept)) = kept
     /\ \A i \in (Len(kept) + 1)..Len(model.foodNodes') :
          model.foodNodes'[i] \notin old

\* C27: after any sequence of GridModel calls getFoodNodes() holds exactly the
\* positions of the isFood cells, each once, in the order in which they were
\* made food, and no listed position is a wall or out of bounds.
C27_FoodListMatchesCells == []FoodListExact /\ [][FoodOrderKept]_vars

\* C27 witness: two waypoints are listed, and the one listed first lies
\* after the other in row-major order.
C27_Witness ==
  /\ Len(model.foodNodes) = 2
  /\ FoodListExact
  /\ \/ model.foodNodes[1].row > model.foodNodes[2].row
     \/ /\ model.foodNodes[1].row = model.foodNodes[2].row
        /\ model.foodNodes[1].col > model.foodNodes[2].col

\* the state of runAStar's loop on the fresh grid after its first k legs
AStarAfterLegs(k) ==
  aStarLegs(RunState(aStarStart(FreshStatic, startNode, finishNode), startNode),
            SubSeq(TargetNodes(finishNode, foodNodes), 1, k))

\* the legs of runAStar on the fresh grid that begin: every earlier leg
\* returned with visited cells
AStarLegsBegun ==
  {k \in 1..(Len(foodNodes) + 1) :
     AStarAfterLegs(k - 1).returned /\ Len(AStarAfterLegs(k - 1).legs) = k - 1}

\* the grid that aStarHelper receives for leg k
AStarGridAtLeg(k) ==
  ResetAStar(AStarAfterLegs(k - 1).grid, AStarAfterLegs(k - 1).currentStartNode,
             TargetNodes(finishNode, foodNodes)[k])

\* C21: in runAStar, when the aStarHelper of a leg begins, every cell, the
\* leg's start included, has heuristic = Manhattan distance to that leg's
\* target, and every cell of finite distance has fScore = distance + heuristic.
C21_LegStartHeuristics ==
  (first.alg = "astar" /\ first.onFresh)
    => \A k \in AStarLegsBegun :
         LET g == AStarGridAtLeg(k)
             target == TargetNodes(finishNode, foodNodes)[k]
         IN \A c \in Cells :
              /\ g[c].heuristic = calculateManhattanDistance(c, target)
              /\ g[c].distance # Infinity
                   => g[c].fScore = Plus(g[c].distance, g[c].heuristic)

\* the fresh grid with the same walls and no weight
FreshUnweighted == FreshGrid(Walls, {})

\* C22: runBFS and runDFS ignore weights: on a fresh grid with weights the
\* call gives the same visitedNodesInOrder and nodesInShortestPathOrder as on
\* the fresh grid with the same walls, start, finish and waypoints without
\* weights (and returns exactly when that call returns).
C22_BFSDFSIgnoreWeights ==
  /\ (first.alg = "bfs" /\ first.onFresh)
       => LET plain == runBFS(FreshUnweighted, startNode, finishNode, foodNodes)
          IN /\ first.visitedNodesInOrder = plain.allVisitedNodes
             /\ first.nodesInShortestPathOrder = plain.allNodesInPath
             /\ first.returned = plain.returned
  /\ (first.alg = "dfs" /\ first.onFresh)
       => LET plain == runDFS(FreshUnweighted, startNode, finishNode, foodNodes)
          IN /\ first.visitedNodesInOrder = plain.allVisitedNodes
             /\ first.nodesInShortestPathOrder = plain.allNodesInPath
             /\ first.returned = plain.returned

\* C22 witness: runBFS with a waypoint returned a path through a weight cell.
C22_Witness ==
  /\ first.alg = "bfs" /\ first.onFresh /\ first.returned
  /\ foodNodes # <<>>
  /\ \E i \in 1..Len(first.nodesInShortestPathOrder) :
       first.nodesInShortestPathOrder[i] \in Weights

\* the four positions around a cell in the order up, down, left, right
Around(c) ==
  <<[row |-> RowOf(c) - 1, col |-> ColOf(c)], [row |-> RowOf(c) + 1, col |-> ColOf(c)],
    [row |-> RowOf(c), col |-> ColOf(c) - 1], [row |-> RowOf(c), col |-> ColOf(c) + 1]>>

InBounds(p) == p.row >= 0 /\ p.row < Rows /\ p.col >= 0 /\ p.col < Cols

\* the cells around c that lie on the grid, in the order up, down, left, right
AroundInBounds(c) ==
  LET inside == SelectSeq(Around(c), InBounds)
  IN [i \in 1..Len(inside) |-> At(inside[i].row, inside[i].col)]

\* the cells marked visited in a leg of runDFS once the first j cells of its
\* trace are popped and expanded: the leg's start and every non-wall
\* neighbour of an expanded cell
MarkedAfter(leg, j) ==
  {leg.start} \cup
  {n \in Cells : /\ ~grid[n].isWall
                 /\ \E i \in 1..j : n \in NeighborSet(leg.nodesInOrder[i])}

\* the neighbours of the j-th popped cell that are non-wall and not yet
\* marked visited when it is popped, in the order up, down, left, right
Qualifying(leg, j) ==
  LET around == AroundInBounds(leg.nodesInOrder[j])
      fresh(n) == ~grid[n].isWall /\ n \notin MarkedAfter(leg, j - 1)
  IN SelectSeq(around, fresh)

\* C23: getNeighbors returns the in-bounds cells around a cell in the order
\* up, down, left, right; in dfsHelper the cell popped after a non-target
\* cell c is the first of c's up, down, left, right neighbours that is
\* non-wall and not yet marked visited, and an older stack entry (a cell
\* marked earlier and not yet popped) only when none qualifies.
C23_DFSVisitsUpFirst ==
  /\ \A c \in Cells : getNeighbors(c) = AroundInBounds(c)
  /\ \A c \in Calls :
       c.alg = "dfs" =>
         \A k \in 1..Len(c.legs) :
           LET leg == c.legs[k]
               trace == leg.nodesInOrder
           IN \A j \in 1..(Len(trace) - 1) :
                IF Qualifying(leg, j) # <<>>
                THEN trace[j + 1] = Qualifying(leg, j)[1]
                ELSE trace[j + 1] \in
                       MarkedAfter(leg, j - 1) \ {trace[i] : i \in 1..j}

\* C23 witness: a leg of runDFS popped a cell whose first qualifying
\* neighbour was not its up neighbour, and later popped an older stack entry.
C23_Witness ==
  \E c \in Calls :
    /\ c.alg = "dfs"
    /\ \E k \in 1..Len(c.legs) :
         LET leg == c.legs[k]
             trace == leg.nodesInOrder
         IN /\ \E j \in 1..(Len(trace) - 1) :
                 /\ Qualifying(leg, j) # <<>>
                 /\ RowOf(trace[j]) > 0
                 /\ trace[j + 1] # At(RowOf(trace[j]) - 1, ColOf(trace[j]))
            /\ \E j \in 1..(Len(trace) - 1) :
                 /\ Qualifying(leg, j) = <<>>
                 /\ trace[j + 1] \notin NeighborSet(trace[j])

\* C26: a call of the unsubscribe function that subscribe returned does not
\* throw, whatever was called in between, and leaves the callback out of the
\* subscribers of its event.
C26_UnsubscribeNeverThrows ==
  bus.last.op = "unsubscribe"
    => /\ ~bus.last.threw
       /\ ~Contains(bus.events[bus.last.eventName], bus.last.callback)

\* the running publish calls deliver different events
NoEventTwice ==
  \A i, j \in 1..Len(bus.frames) :
    i # j => bus.frames[i].eventName # bus.frames[j].eventName

\* C28: on the guarded bus a publish of E made inside a callback that runs
\* because of a publish of E invokes no callback and returns false; and when
\* the outermost publish has returned or thrown, eventStack is empty and
\* isDispatching is false.
C28_GuardedPublish ==
  bus.kind = "guarded"
    => /\ (bus.last.op = "publish" /\ bus.last.reentrant) => ~bus.last.accepted
       /\ NoEventTwice
       /\ bus.frames = <<>> => (bus.eventStack = <<>> /\ ~bus.isDispatching)

\* C24: in one visualization a 'shortest' step is published only after every
\* node of visitedNodesInOrder had its 'visited' step, no node gets a second
\* step event of a type, and VISUALIZATION_COMPLETED is published at most
\* once.
C24_StepsInOrderAndOnce ==
  viz.animationState # "none"
    => /\ (\E i \in 0..(viz.pathLen - 1) : viz.shortestSteps[i] > 0)
            => \A j \in 0..(viz.visitedLen - 1) : viz.visitedSteps[j] > 0
       /\ \A j \in 0..(MaxVisited - 1) : viz.visitedSteps[j] <= 1
       /\ \A i \in 0..(MaxPath - 1) : viz.shortestSteps[i] <= 1
       /\ viz.completed <= 1

\* C29: while the engine is PAUSED or IDLE, a step that is no call of the
\* user (a timer's callback, time passing) publishes no VISUALIZATION_STEP
\* and leaves currentVisitedIndex and currentShortestPathIndex as they are.
C29_NoProgressWhileIdle ==
  [][(viz.animationState \in {"paused", "idle"} /\ viz'.callsLeft = viz.callsLeft)
       => /\ viz'.currentVisitedIndex = viz.currentVisitedIndex
          /\ viz'.currentShortestPathIndex = viz.currentShortestPathIndex
          /\ viz'.visitedSteps = viz.visitedSteps
          /\ viz'.shortestSteps = viz.shortestSteps]_vars

\* C29 witness: a timer that was pending when pause() was called has run
\* while the engine is PAUSED, with path nodes left to animate.
C29_Witness ==
  /\ viz.animationState = "paused"
  /\ viz.ignored
  /\ viz.currentVisitedIndex = viz.visitedLen
  /\ viz.currentShortestPathIndex < viz.pathLen

\* C30: once the engine is RUNNING and the user makes no further call, it
\* eventually is COMPLETED with currentVisitedIndex = the length of
\* visitedNodesInOrder and currentShortestPathIndex = the length of
\* shortestPathNodesInOrder.
C30_RunningLeadsToCompleted ==
  (viz.animationState = "running" /\ viz.callsLeft = 0)
    ~> (/\ viz.animationState = "completed"
        /\ viz.currentVisitedIndex = viz.visitedLen
        /\ viz.currentShortestPathIndex = viz.pathLen)
====
